---- MODULE Spec2Model ----
(***************************************************************************)
(* The core task runtime of powerbase/core/task/base.py: the Task entity,  *)
(* its status setter and getter, the should-run check, the three execution *)
(* back-ends (inline, worker thread, worker process), the proof-of-start   *)
(* wait on the log bridge and the callbacks of a run.                      *)
(*                                                                         *)
(* One scheduler thread (the parent) dispatches tasks. A task with         *)
(* execution "main" runs on the parent's thread, a "thread" task on its    *)
(* own thread against the same Task object, a "process" task in a worker   *)
(* process against a pickled copy whose records travel over the bridge     *)
(* queue. Every statement that another thread or process can interleave    *)
(* with is a step of its own.                                              *)
(***************************************************************************)
EXTENDS Integers, Sequences, FiniteSets, TLC

\* Number of tasks registered in the session.
NTasks == 1
\* Dispatches allowed per task (caps the length of the logs).
MaxRuns == 2
\* Direct calls of the transition methods per task under SpecLog.
MaxCalls == 3

\* Bound of the model: the records in the history of the two tasks of
\* SpecDepend.
MaxHistory == 6

\* Bound of the model: the worker processes started in SpecBridge.
MaxSpawn == 3

Tasks == 1..NTasks

\* Task._actions (None is written "None").
_actions == {"run", "fail", "success", "inaction", "terminate", "None", "crash_release"}

\* The actions a caller assigns to task.status: those of _actions, the status
\* string run_as_main hands to on_finish after a termination, and a misspelt
\* action.
StatusInputs == _actions \cup {"termination", "succes"}

Executions == {"main", "thread", "process"}

\* The threads that call the task: two schedulers.
Callers == {"a", "b"}

\* The Task objects of the registry, and the names given to them.
Objects == {"A", "B", "C"}
GivenNames == {"t", "t0", "u"}

\* The values of session.config["on_task_pre_exists"].
Policies == {"raise", "replace", "ignore", "rename"}

\* The condition objects: the caller's tree is the leaf alone or the root
\* All(leaf); copy_start, copy_run and copy_end are the objects copy() makes.
Nodes == {"root", "leaf", "copy_start", "copy_run", "copy_end"}
Conditions == {"start_cond", "run_cond", "end_cond"}

\* What a caller passes as a condition: nothing, its tree, a bool, or a
\* value that is neither a bool nor a condition (such as a number).
Arguments == {"None", "tree", "True", "other"}

\* The ways execute_action can end that run_as_main tells apart: a return,
\* SchedulerRestart, TaskInactionException, TaskTerminationException and any
\* other Exception. (A BaseException such as SystemExit is outside this set.)
Outcomes == {"return", "restart", "inaction", "termination", "error"}

\* What reading a callback attribute (on_success, on_failure, on_finish)
\* finds: nothing set, a callable that returns, a callable that raises.
Callbacks == {"unset", "returns", "raises"}

\* The transition methods of the Task.
Methods == {"log_running", "log_success", "log_failure", "log_termination", "log_inaction"}

VARIABLES
    \* ---- the Task objects held by the session (the parent's objects)
    execution,          \* task.execution
    force_run,          \* task.force_run: "True", "False" or "None"
    disabled,           \* task.disabled
    start_cond,         \* task.start_cond: "AlwaysTrue" or "AlwaysFalse"
    _status,            \* task._status, the cached status
    start_time,         \* whether task.start_time has been set
    exception,          \* task.exception: 0 when unset, else the number of the
                        \* dispatch whose body raised the attached exception
    thread_terminate,   \* task._thread_terminate (the Event) is set
    force_termination,  \* task.force_termination
    _thread,            \* task._thread: "unset", "alive" or "dead"
    _process,           \* task._process: "unset", "alive" or "dead"
    \* ---- session and sinks
    force_status_from_logs, \* session.config["force_status_from_logs"]
    start_method,       \* how multiprocessing starts a worker: "fork" or "spawn"
    log,                \* the parent's sink: per task name, the records in order
    queue,              \* the log bridge (multiprocessing.Queue), FIFO
    \* ---- the pickled copy of the Task inside a worker process
    w_status,           \* the copy's _status
    w_force_run,        \* the copy's force_run
    \* ---- control
    dpc,                \* where the parent is in the dispatch of each task
    rpc,                \* where the run of each task is
    pend,               \* the value being assigned to status by the run
    outcome,            \* how execute_action ended in the current run
    exc,                \* the exception propagating out of run_as_main
    event_is_running,   \* the threading.Event of run_as_thread is set
    \* ---- observations
    trace,              \* what the current run did, in order
    ndisp,              \* number of dispatches of the task so far
    mark,               \* length of the task's log when it was last dispatched
    passed_run,         \* the parent's _status became "run" since the last dispatch
    last_call,          \* the transition method last called directly (SpecLog)
    bool_call,          \* the last call of __bool__: what it read and returned (SpecBool)
    \* ---- several callers of one task (SpecCallers)
    caller_pc,          \* where each caller is with each task
    worker_pc,          \* where the thread each caller started is
    thread_owner,       \* the caller whose thread task._thread refers to
    \* ---- the registry of the session (SpecNames)
    on_task_pre_exists, \* session.config["on_task_pre_exists"]
    tasks,              \* session.tasks: the Task object registered under each name
    _name,              \* task._name of each Task object, "unset" before __init__
    name_call,          \* the last assignment to task.name and how it ended
    \* ---- the conditions of one Task and the caller's condition tree (SpecConds)
    heap,               \* the condition objects: kind, value, subconditions
    user_cond,          \* the root of the tree the caller holds
    constructed,        \* __init__ of the Task has run
    _start_cond,        \* task._start_cond
    run_cond,           \* task.run_cond
    _end_cond,          \* task._end_cond
    assigned,           \* per condition: given from the caller's tree, and what
                        \* it evaluated to when it was assigned
    cond_call,          \* the last assignment of a condition and how it ended
    \* ---- direct assignments to task.status (SpecStatus)
    status_call,        \* the last assignment to task.status and how it ended
    \* ---- a task A and a task B that depends on it (SpecDepend)
    history,            \* the log of the session: the records of A and B in order
    dependent_task,     \* B: constructed, the start_cond and dependent given,
                        \* and the leaves of the conjunction B.start_cond is
    \* ---- two process tasks that share one log bridge (SpecBridge)
    log_queue,          \* the shared bridge: records in FIFO order
    session_log,        \* the parent's log of each task
    cached_status,      \* task._status of each task, in the parent
    processes,          \* task._process of each task: the pid of the worker
                        \* and whether it is alive, and where the worker is
    spawned,            \* the number of worker processes started so far
    lock_to_run,        \* the dispatch that is in _lock_to_run_log, if any
    worker_logged,      \* the records the workers of each task have logged
    drain_end           \* how the last _lock_to_run_log returned

taskvars == <<execution, force_run, disabled, start_cond, _status, start_time,
              exception, thread_terminate, force_termination, _thread, _process>>
sinkvars == <<force_status_from_logs, start_method, log, queue>>
copyvars == <<w_status, w_force_run>>
ctlvars  == <<dpc, rpc, pend, outcome, exc, event_is_running>>
obsvars  == <<trace, ndisp, mark, passed_run, last_call, bool_call>>
racevars == <<caller_pc, worker_pc, thread_owner>>
\* The variables of the specifications of one part of the Task on its own.
namevars == <<on_task_pre_exists, tasks, _name, name_call>>
condvars == <<heap, user_cond, constructed, _start_cond, run_cond, _end_cond,
              assigned, cond_call>>
statvars == <<status_call>>
depvars == <<history, dependent_task>>
bridgevars == <<log_queue, session_log, cached_status, processes, spawned,
                lock_to_run, worker_logged, drain_end>>
sidevars == <<racevars, namevars, condvars, statvars, depvars, bridgevars>>
vars == <<taskvars, sinkvars, copyvars, ctlvars, obsvars, sidevars>>

----------------------------------------------------------------------------
\* Conditions

\* bool(cond) of the two leaf conditions the core constructs itself.
Evaluate(cond) == cond = "AlwaysTrue"

\* Task.__bool__ with disabled tested before force_run.
BoolDisabledFirst(t) ==
    IF disabled[t] THEN FALSE
    ELSE IF force_run[t] = "True" THEN TRUE
    ELSE Evaluate(start_cond[t])

\* Task.__bool__: whether the task can be run.
__bool__(t) ==
    IF force_run[t] = "True" THEN TRUE
    ELSE IF disabled[t] THEN FALSE
    ELSE Evaluate(start_cond[t])

----------------------------------------------------------------------------
\* Status

NoRecord == [action |-> "None", msg |-> ""]

\* logger.get_latest(): the latest record of the task, or none.
get_latest(t) == IF log[t] = <<>> THEN NoRecord ELSE log[t][Len(log[t])]

\* Task.status (getter).
status(t) ==
    IF force_status_from_logs THEN get_latest(t).action ELSE _status[t]

\* Task.is_running.
is_running(t) == status(t) = "run"

\* Task.is_alive_as_thread / is_alive_as_process / is_alive.
is_alive_as_thread(t) == _thread[t] = "alive"
is_alive_as_process(t) == _process[t] = "alive"
is_alive(t) == is_alive_as_thread(t) \/ is_alive_as_process(t)

\* The values the transition methods assign to status: a plain action, or
\* the tuple (action, message).
log_running == [action |-> "run", msg |-> "", tuple |-> FALSE]
log_failure == [action |-> "fail", msg |-> "failed", tuple |-> TRUE]
log_success == [action |-> "success", msg |-> "", tuple |-> FALSE]
log_termination == [action |-> "terminate", msg |-> "unknown reason", tuple |-> TRUE]
log_inaction == [action |-> "inaction", msg |-> "", tuple |-> FALSE]

NoValue == [action |-> "None", msg |-> "", tuple |-> FALSE]

ValueOf(m) ==
    CASE m = "log_running" -> log_running
      [] m = "log_success" -> log_success
      [] m = "log_failure" -> log_failure
      [] m = "log_termination" -> log_termination
      [] m = "log_inaction" -> log_inaction

\* The status setter storing the assigned value itself, tuple or not.
StoredValue(value) == IF value.tuple THEN "tuple" ELSE value.action

\* What the status setter stores in _status: the action of the value.
Stored(value) == value.action

\* The record the status setter hands to the logger.
Record(value) == [action |-> value.action, msg |-> value.msg]

\* The setter's emit: the record goes to the logger of the parent's Task,
\* and a "run" sets start_time.
EmitParent(t, value) ==
    /\ log' = [log EXCEPT ![t] = Append(@, Record(value))]
    /\ start_time' = [start_time EXCEPT ![t] = @ \/ value.action = "run"]

\* The setter's store into the parent's Task; log_termination then clears
\* the terminate event and force_termination.
StoreParent(t, value) ==
    /\ _status' = [_status EXCEPT ![t] = Stored(value)]
    /\ passed_run' = [passed_run EXCEPT ![t] = @ \/ Stored(value) = "run"]
    /\ thread_terminate' =
          [thread_terminate EXCEPT ![t] = @ /\ value # log_termination]
    /\ force_termination' =
          [force_termination EXCEPT ![t] = @ /\ value # log_termination]

\* Task.log_record: the record is handed to the logger of the task it names
\* and that task's _status is set to its action.
log_record(record) ==
    /\ log' = [log EXCEPT ![record.task_name] =
                  Append(@, [action |-> record.action, msg |-> record.msg])]
    /\ _status' = [_status EXCEPT ![record.task_name] = record.action]
    /\ passed_run' = [passed_run EXCEPT ![record.task_name] =
                         @ \/ record.action = "run"]

----------------------------------------------------------------------------
\* The run: run_as_main and its wrappers

NoCall == [called |-> FALSE, force_run |-> "None", disabled |-> FALSE,
           start_cond |-> "AlwaysFalse", result |-> FALSE]

NoPend == [value |-> NoValue, next |-> "none"]

\* The values a condition attribute can hold: a reference to a condition
\* object, a condition object of its own with a constant value (AlwaysTrue,
\* AlwaysFalse), a bool, or some other value.
Unset == [type |-> "unset", ref |-> "none", val |-> FALSE]
Ref(n) == [type |-> "Condition", ref |-> n, val |-> FALSE]
Always(b) == [type |-> "Condition", ref |-> "none", val |-> b]
Bool(b) == [type |-> "bool", ref |-> "none", val |-> b]
Other == [type |-> "other", ref |-> "none", val |-> FALSE]

NoNode == [kind |-> "none", value |-> FALSE, subs |-> {}]

\* The process tasks of SpecBridge, by name.
BridgeTasks == {"T", "U"}

NoProcess == [pid |-> 0, alive |-> FALSE, pc |-> "none"]

NoDrainEnd == [by |-> "none", task |-> "none", pid |-> 0,
               record |-> [task_name |-> "none", action |-> "None", process |-> 0]]

NoLock == [task |-> "none", pc |-> "idle"]

NoDependent == [constructed |-> FALSE, given |-> "None", dependent |-> {},
                start_cond |-> {}]

NoStatusCall == [called |-> FALSE, task |-> 1, value |-> NoValue,
                 before |-> [_status |-> "None", start_time |-> FALSE, log |-> <<>>],
                 result |-> "none"]
NoCondCall == [called |-> FALSE, cond |-> "start_cond", arg |-> "None",
               before |-> <<Unset, Unset, Unset>>, result |-> "none"]

\* A Task object without the attribute _name.
NoName == "unset"

NoNameCall == [called |-> FALSE, obj |-> "A", requested |-> NoName, old |-> NoName,
               registered |-> FALSE, collided |-> FALSE, before |-> <<>>,
               result |-> "none"]

\* The run works on the pickled copy inside a worker process.
OnCopy(t) == execution[t] = "process"

\* _run_as_thread passing _log_running=True like the other callers.
LogRunningAlways(caller) == TRUE

\* The _log_running argument with which each caller enters run_as_main.
_log_running(caller) == caller # "thread"

\* The handlers with except Exception tried before the sentinels: an
\* inaction or a termination is logged as a failure.
TerminalValueFailFirst(o) ==
    CASE o = "return" -> log_success
      [] o = "restart" -> log_success
      [] o = "inaction" -> log_failure
      [] o = "termination" -> log_failure
      [] o = "error" -> log_failure

\* The log call of each way the body can end.
TerminalValue(o) ==
    CASE o = "return" -> log_success
      [] o = "restart" -> log_success
      [] o = "inaction" -> log_inaction
      [] o = "termination" -> log_termination
      [] o = "error" -> log_failure

\* The local variable status of run_as_main after the log call, with the
\* action name used for a failure.
LocalStatusAction(o) ==
    CASE o = "return" -> "succeeded"
      [] o = "restart" -> "succeeded"
      [] o = "inaction" -> "inaction"
      [] o = "termination" -> "termination"
      [] o = "error" -> "fail"

\* The local variable status of run_as_main after the log call.
LocalStatus(o) ==
    CASE o = "return" -> "succeeded"
      [] o = "restart" -> "succeeded"
      [] o = "inaction" -> "inaction"
      [] o = "termination" -> "termination"
      [] o = "error" -> "failed"

\* The local variable status when the finally clause reads it: still None
\* when the handler's log call raised before the assignment.
StatusAtFinally(o, raised) ==
    IF raised = "AttributeError" THEN "None" ELSE LocalStatus(o)

\* Where run_as_main goes after the log call of a handler.
AfterTerminal(o) ==
    IF o \in {"inaction", "termination"} THEN "finally" ELSE "callback"

\* A handler without the finally clause: a raising callback leaves at once.
AfterCallbackNoFinally(raised) == IF raised THEN "exit" ELSE "finally"

\* Where run_as_main goes after process_success / process_failure: the
\* finally clause runs whether or not the callback raised.
AfterCallback(raised) == "finally"

Event(ev, arg, how) == [ev |-> ev, arg |-> arg, how |-> how]

Clear(t) ==
    /\ rpc' = [rpc EXCEPT ![t] = "none"]
    /\ pend' = [pend EXCEPT ![t] = NoPend]
    /\ outcome' = [outcome EXCEPT ![t] = "none"]
    /\ exc' = [exc EXCEPT ![t] = "none"]
    /\ trace' = [trace EXCEPT ![t] = <<>>]

\* Entering run_as_main: log_running() unless _log_running is false.
EnterRunAsMain(t, caller) ==
    IF _log_running(caller)
    THEN /\ rpc' = [rpc EXCEPT ![t] = "emit"]
         /\ pend' = [pend EXCEPT ![t] = [value |-> log_running, next |-> "body"]]
    ELSE /\ rpc' = [rpc EXCEPT ![t] = "body"]
         /\ pend' = [pend EXCEPT ![t] = NoPend]

----------------------------------------------------------------------------
\* Initial states

InitCommon ==
    /\ _status = [t \in Tasks |-> "None"]
    /\ start_time = [t \in Tasks |-> FALSE]
    /\ exception = [t \in Tasks |-> 0]
    /\ thread_terminate = [t \in Tasks |-> FALSE]
    /\ force_termination = [t \in Tasks |-> FALSE]
    /\ _thread = [t \in Tasks |-> "unset"]
    /\ _process = [t \in Tasks |-> "unset"]
    /\ force_status_from_logs \in BOOLEAN
    /\ start_method \in {"fork", "spawn"}
    /\ log = [t \in Tasks |-> <<>>]
    /\ queue = <<>>
    /\ w_status = [t \in Tasks |-> "None"]
    /\ w_force_run = [t \in Tasks |-> "None"]
    /\ dpc = [t \in Tasks |-> "idle"]
    /\ rpc = [t \in Tasks |-> "none"]
    /\ pend = [t \in Tasks |-> NoPend]
    /\ outcome = [t \in Tasks |-> "none"]
    /\ exc = [t \in Tasks |-> "none"]
    /\ event_is_running = [t \in Tasks |-> FALSE]
    /\ trace = [t \in Tasks |-> <<>>]
    /\ ndisp = [t \in Tasks |-> 0]
    /\ mark = [t \in Tasks |-> 0]
    /\ passed_run = [t \in Tasks |-> FALSE]
    /\ last_call = [t \in Tasks |-> "none"]
    /\ bool_call = [t \in Tasks |-> NoCall]
    /\ caller_pc = [t \in Tasks |-> [c \in Callers |-> "idle"]]
    /\ worker_pc = [t \in Tasks |-> [c \in Callers |-> "none"]]
    /\ thread_owner = [t \in Tasks |-> "none"]
    /\ tasks = <<>>
    /\ _name = [o \in Objects |-> NoName]
    /\ name_call = NoNameCall
    /\ heap = [n \in Nodes |->
                  IF n = "root" THEN [kind |-> "All", value |-> FALSE, subs |-> {"leaf"}]
                  ELSE IF n = "leaf" THEN [kind |-> "Leaf", value |-> TRUE, subs |-> {}]
                  ELSE NoNode]
    /\ constructed = FALSE
    /\ _start_cond = Unset
    /\ run_cond = Unset
    /\ _end_cond = Unset
    /\ assigned = [c \in Conditions |-> [given |-> FALSE, result |-> FALSE]]
    /\ cond_call = NoCondCall
    /\ status_call = NoStatusCall
    /\ history = <<>>
    /\ dependent_task = NoDependent
    /\ log_queue = <<>>
    /\ session_log = [t \in BridgeTasks |-> <<>>]
    /\ cached_status = [t \in BridgeTasks |-> "None"]
    /\ processes = [t \in BridgeTasks |-> NoProcess]
    /\ spawned = 0
    /\ lock_to_run = NoLock
    /\ worker_logged = [t \in BridgeTasks |-> <<>>]
    /\ drain_end = NoDrainEnd

\* Task.__init__: status None, no worker; the session holds tasks of every
\* execution, forced or not, that are enabled and whose start condition holds.
Init ==
    /\ InitCommon
    /\ user_cond = "leaf"
    /\ on_task_pre_exists = "raise"
    /\ execution \in [Tasks -> Executions]
    /\ force_run \in [Tasks -> {"True", "False"}]
    /\ disabled = [t \in Tasks |-> FALSE]
    /\ start_cond = [t \in Tasks |-> "AlwaysTrue"]

----------------------------------------------------------------------------
\* The parent: Task.__call__ and the proof-of-start waits

ParentIdle == \A t \in Tasks : dpc[t] = "idle"

\* __call__ leaving the handle of an earlier dispatch in place.
keep_handle(handle) == handle

\* __call__: "if hasattr(self, ...): del ..." on a handle.
del_handle(handle) == "unset"

\* A scheduler dispatches a task when the task should run, is not seen
\* running and has no live worker; the scheduler of Spec has one thread.
ShouldDispatch(t) ==
    /\ ndisp[t] < MaxRuns
    /\ __bool__(t)
    /\ ~is_running(t)
    /\ ~is_alive(t)

CanDispatch(t) == ParentIdle /\ ShouldDispatch(t)

Dispatched(t) ==
    /\ ndisp' = [ndisp EXCEPT ![t] = @ + 1]
    /\ mark' = [mark EXCEPT ![t] = Len(log[t])]
    /\ passed_run' = [passed_run EXCEPT ![t] = FALSE]

\* __call__ with execution "main": the old handles are deleted and
\* run_as_main starts on the caller's thread.
CallMain(t) ==
    /\ CanDispatch(t)
    /\ execution[t] = "main"
    /\ _process' = [_process EXCEPT ![t] = del_handle(@)]
    /\ _thread' = [_thread EXCEPT ![t] = del_handle(@)]
    /\ dpc' = [dpc EXCEPT ![t] = "run_as_main"]
    /\ EnterRunAsMain(t, "main")
    /\ Dispatched(t)
    /\ UNCHANGED <<execution, force_run, disabled, start_cond, _status, start_time,
                   exception, thread_terminate, force_termination>>
    /\ UNCHANGED <<sinkvars, copyvars, outcome, exc, event_is_running,
                   trace, last_call, bool_call>>
    /\ UNCHANGED sidevars

\* __call__ with execution "thread", up to event_is_running.wait(): the
\* terminate event is cleared, the thread is started (its first statement is
\* log_running) and start_time is set.
CallThread(t) ==
    /\ CanDispatch(t)
    /\ execution[t] = "thread"
    /\ _process' = [_process EXCEPT ![t] = del_handle(@)]
    /\ _thread' = [_thread EXCEPT ![t] = "alive"]
    /\ thread_terminate' = [thread_terminate EXCEPT ![t] = FALSE]
    /\ event_is_running' = [event_is_running EXCEPT ![t] = FALSE]
    /\ start_time' = [start_time EXCEPT ![t] = TRUE]
    /\ dpc' = [dpc EXCEPT ![t] = "event_wait"]
    /\ rpc' = [rpc EXCEPT ![t] = "emit"]
    /\ pend' = [pend EXCEPT ![t] = [value |-> log_running, next |-> "event"]]
    /\ Dispatched(t)
    /\ UNCHANGED <<execution, force_run, disabled, start_cond, _status,
                   exception, force_termination>>
    /\ UNCHANGED <<sinkvars, copyvars, outcome, exc, trace, last_call, bool_call>>
    /\ UNCHANGED sidevars

\* event_is_running.wait() returns, and with it __call__.
EventWait(t) ==
    /\ dpc[t] = "event_wait"
    /\ event_is_running[t]
    /\ dpc' = [dpc EXCEPT ![t] = "idle"]
    /\ UNCHANGED <<taskvars, sinkvars, copyvars, rpc, pend, outcome, exc,
                   event_is_running, obsvars>>
    /\ UNCHANGED sidevars

\* __call__ with execution "process", up to _lock_to_run_log: the worker is
\* started on a pickled copy of the task and start_time is set.
CallProcess(t) ==
    /\ CanDispatch(t)
    /\ execution[t] = "process"
    /\ _thread' = [_thread EXCEPT ![t] = del_handle(@)]
    /\ _process' = [_process EXCEPT ![t] = "alive"]
    /\ start_time' = [start_time EXCEPT ![t] = TRUE]
    /\ w_status' = [w_status EXCEPT ![t] = _status[t]]
    /\ w_force_run' = [w_force_run EXCEPT ![t] = force_run[t]]
    /\ dpc' = [dpc EXCEPT ![t] = "lock_get"]
    /\ rpc' = [rpc EXCEPT ![t] = "setup"]
    /\ Dispatched(t)
    /\ UNCHANGED <<execution, force_run, disabled, start_cond, _status,
                   exception, thread_terminate, force_termination>>
    /\ UNCHANGED <<sinkvars, pend, outcome, exc, event_is_running,
                   trace, last_call, bool_call>>
    /\ UNCHANGED sidevars

\* The loop of _lock_to_run_log ending after any record.
LoopEndsAlways(action) == TRUE

\* The loop of _lock_to_run_log ends when the action of the record is "run".
LoopEnds(action) == action = "run"

\* _lock_to_run_log: log_queue.get returned a record; it is replayed on the
\* task it names, and the loop ends on a "run".
LockGet(t) ==
    /\ dpc[t] = "lock_get"
    /\ queue # <<>>
    /\ queue' = Tail(queue)
    /\ log_record(Head(queue))
    /\ dpc' = [dpc EXCEPT ![t] =
                  IF LoopEnds(Head(queue).action) THEN "idle" ELSE "lock_get"]
    /\ UNCHANGED <<execution, force_run, disabled, start_cond, start_time,
                   exception, thread_terminate, force_termination, _thread, _process>>
    /\ UNCHANGED <<force_status_from_logs, start_method, copyvars, rpc, pend, outcome, exc,
                   event_is_running, trace, ndisp, mark, last_call, bool_call>>
    /\ UNCHANGED sidevars

\* _lock_to_run_log: log_queue.get timed out (Empty) on an empty bridge.
LockEmpty(t) ==
    /\ dpc[t] = "lock_get"
    /\ queue = <<>>
    /\ dpc' = [dpc EXCEPT ![t] = "lock_empty"]
    /\ UNCHANGED <<taskvars, sinkvars, copyvars, rpc, pend, outcome, exc,
                   event_is_running, obsvars>>
    /\ UNCHANGED sidevars

\* _lock_to_run_log after Empty, the worker not alive: "crashed in setup" is
\* written through the logger and the dispatch returns.
LockCrashed(t) ==
    /\ dpc[t] = "lock_empty"
    /\ ~is_alive(t)
    /\ log' = [log EXCEPT ![t] =
                  Append(@, [action |-> "fail", msg |-> "crashed in setup"])]
    /\ dpc' = [dpc EXCEPT ![t] = "idle"]
    /\ UNCHANGED <<taskvars, force_status_from_logs, start_method, queue, copyvars, rpc, pend,
                   outcome, exc, event_is_running, obsvars>>
    /\ UNCHANGED sidevars

\* _lock_to_run_log after Empty, the worker alive: the loop waits again.
LockRetry(t) ==
    /\ dpc[t] = "lock_empty"
    /\ is_alive(t)
    /\ dpc' = [dpc EXCEPT ![t] = "lock_get"]
    /\ UNCHANGED <<taskvars, sinkvars, copyvars, rpc, pend, outcome, exc,
                   event_is_running, obsvars>>
    /\ UNCHANGED sidevars

\* The scheduler's normal drain of the bridge between dispatches: one record
\* is popped and replayed on the task it names.
Drain ==
    /\ ParentIdle
    /\ queue # <<>>
    /\ queue' = Tail(queue)
    /\ log_record(Head(queue))
    /\ UNCHANGED <<execution, force_run, disabled, start_cond, start_time,
                   exception, thread_terminate, force_termination, _thread, _process>>
    /\ UNCHANGED <<force_status_from_logs, start_method, copyvars, ctlvars,
                   trace, ndisp, mark, last_call, bool_call>>
    /\ UNCHANGED sidevars

\* The scheduler asks a running thread task to stop: force_termination is
\* raised and the terminate event is set for the body to poll.
Terminate(t) ==
    /\ ParentIdle
    /\ execution[t] = "thread"
    /\ is_alive_as_thread(t)
    /\ is_running(t)
    /\ ~thread_terminate[t]
    /\ thread_terminate' = [thread_terminate EXCEPT ![t] = TRUE]
    /\ force_termination' = [force_termination EXCEPT ![t] = TRUE]
    /\ UNCHANGED <<execution, force_run, disabled, start_cond, _status, start_time,
                   exception, _thread, _process>>
    /\ UNCHANGED <<sinkvars, copyvars, ctlvars, obsvars>>
    /\ UNCHANGED sidevars

----------------------------------------------------------------------------
\* The run's steps

\* The status setter, first half: the record is logged. In a worker process
\* the logger's only handler puts the record on the bridge.
SetterEmit(t) ==
    /\ rpc[t] = "emit"
    /\ IF OnCopy(t)
       THEN /\ queue' = Append(queue, [task_name |-> t,
                                       action |-> pend[t].value.action,
                                       msg |-> pend[t].value.msg])
            /\ UNCHANGED <<log, start_time>>
       ELSE /\ EmitParent(t, pend[t].value)
            /\ UNCHANGED queue
    /\ trace' = [trace EXCEPT ![t] = Append(@, Event("log", pend[t].value.action, ""))]
    /\ rpc' = [rpc EXCEPT ![t] = "store"]
    /\ UNCHANGED <<execution, force_run, disabled, start_cond, _status, exception,
                   thread_terminate, force_termination, _thread, _process>>
    /\ UNCHANGED <<force_status_from_logs, start_method, copyvars, dpc, pend, outcome, exc,
                   event_is_running, ndisp, mark, passed_run, last_call, bool_call>>
    /\ UNCHANGED sidevars

\* log_termination after the setter: self.thread_terminate.clear(). A copy
\* that was pickled into the worker (start method spawn) went through
\* __getstate__, which set _thread_terminate to None: the call raises
\* AttributeError. A forked copy still holds its Event.
ClearRaises(t, value) ==
    /\ OnCopy(t)
    /\ value = log_termination
    /\ start_method = "spawn"

\* The status setter, second half: _status is assigned, and the method that
\* called the setter runs to its end.
SetterStore(t) ==
    /\ rpc[t] = "store"
    /\ exc' = [exc EXCEPT ![t] =
                  IF ClearRaises(t, pend[t].value) THEN "AttributeError" ELSE @]
    /\ IF OnCopy(t)
       THEN /\ w_status' = [w_status EXCEPT ![t] = Stored(pend[t].value)]
            /\ UNCHANGED <<_status, passed_run, thread_terminate, force_termination>>
       ELSE /\ StoreParent(t, pend[t].value)
            /\ UNCHANGED w_status
    /\ rpc' = [rpc EXCEPT ![t] = pend[t].next]
    /\ pend' = [pend EXCEPT ![t] = NoPend]
    /\ UNCHANGED <<execution, force_run, disabled, start_cond, start_time, exception,
                   _thread, _process>>
    /\ UNCHANGED <<sinkvars, w_force_run, dpc, outcome, event_is_running,
                   trace, ndisp, mark, last_call, bool_call>>
    /\ UNCHANGED sidevars

\* _run_as_thread after log_running: event.set(), then
\* run_as_main(params, _log_running=False).
EventSet(t) ==
    /\ rpc[t] = "event"
    /\ event_is_running' = [event_is_running EXCEPT ![t] = TRUE]
    /\ EnterRunAsMain(t, "thread")
    /\ UNCHANGED <<taskvars, sinkvars, copyvars, dpc, outcome, exc, obsvars>>
    /\ UNCHANGED sidevars

\* _run_as_process: the logger is set up and run_as_main(params) is entered.
WorkerStart(t) ==
    /\ rpc[t] = "setup"
    /\ EnterRunAsMain(t, "process")
    /\ UNCHANGED <<taskvars, sinkvars, copyvars, dpc, outcome, exc,
                   event_is_running, obsvars>>
    /\ UNCHANGED sidevars

\* The worker process dies before it has logged anything.
WorkerDies(t) ==
    /\ rpc[t] = "setup"
    /\ _process' = [_process EXCEPT ![t] = "dead"]
    /\ w_status' = [w_status EXCEPT ![t] = "None"]
    /\ w_force_run' = [w_force_run EXCEPT ![t] = "None"]
    /\ rpc' = [rpc EXCEPT ![t] = "none"]
    /\ UNCHANGED <<execution, force_run, disabled, start_cond, _status, start_time,
                   exception, thread_terminate, force_termination, _thread>>
    /\ UNCHANGED <<sinkvars, dpc, pend, outcome, exc, event_is_running, obsvars>>
    /\ UNCHANGED sidevars

\* _run_as_process: setting the logger fails; a "fail" record naming the task
\* is put on the bridge and the exception ends the worker.
WorkerLoggerCrash(t) ==
    /\ rpc[t] = "setup"
    /\ queue' = Append(queue, [task_name |-> t, action |-> "fail",
                               msg |-> "crashed in setting up logger"])
    /\ _process' = [_process EXCEPT ![t] = "dead"]
    /\ w_status' = [w_status EXCEPT ![t] = "None"]
    /\ w_force_run' = [w_force_run EXCEPT ![t] = "None"]
    /\ rpc' = [rpc EXCEPT ![t] = "none"]
    /\ UNCHANGED <<execution, force_run, disabled, start_cond, _status, start_time,
                   exception, thread_terminate, force_termination, _thread>>
    /\ UNCHANGED <<force_status_from_logs, start_method, log, dpc, pend, outcome, exc,
                   event_is_running, obsvars>>
    /\ UNCHANGED sidevars

\* The try block of run_as_main: execute_action ends in one of the ways
\* run_as_main tells apart, and the matching handler starts its log call.
ExecuteAction(t, o) ==
    /\ rpc[t] = "body"
    /\ outcome' = [outcome EXCEPT ![t] = o]
    /\ rpc' = [rpc EXCEPT ![t] = "emit"]
    /\ pend' = [pend EXCEPT ![t] =
                   [value |-> TerminalValue(o), next |-> AfterTerminal(o)]]
    /\ UNCHANGED <<taskvars, sinkvars, copyvars, dpc, exc, event_is_running, obsvars>>
    /\ UNCHANGED sidevars

\* The else clause: process_success(output); on_success is called when set.
ProcessSuccess(t, how) ==
    /\ rpc[t] = "callback"
    /\ outcome[t] = "return"
    /\ trace' = [trace EXCEPT ![t] = Append(@, Event("process_success", "output", how))]
    /\ exc' = [exc EXCEPT ![t] = IF how = "raises" THEN "on_success" ELSE "none"]
    /\ rpc' = [rpc EXCEPT ![t] = AfterCallback(how = "raises")]
    /\ UNCHANGED <<taskvars, sinkvars, copyvars, dpc, pend, outcome,
                   event_is_running, ndisp, mark, passed_run, last_call, bool_call>>
    /\ UNCHANGED sidevars

\* except SchedulerRestart, after log_success: process_success(output) reads
\* the local output, which execute_action never bound; the UnboundLocalError
\* leaves the handler before process_success is called and before raise.
RestartHandler(t) ==
    /\ rpc[t] = "callback"
    /\ outcome[t] = "restart"
    /\ exc' = [exc EXCEPT ![t] = "UnboundLocalError"]
    /\ rpc' = [rpc EXCEPT ![t] = AfterCallback(TRUE)]
    /\ UNCHANGED <<taskvars, sinkvars, copyvars, dpc, pend, outcome,
                   event_is_running, obsvars>>
    /\ UNCHANGED sidevars

\* process_failure leaving the exception unattached.
AttachedNever(t, how) == FALSE

\* except Exception, after process_failure: self.exception = exception is
\* reached, on the parent's own Task, unless on_failure raised.
Attached(t, how) == how # "raises" /\ ~OnCopy(t)

\* except Exception, after log_failure: process_failure(exception); then the
\* exception is attached to the task and re-raised.
ProcessFailure(t, how) ==
    /\ rpc[t] = "callback"
    /\ outcome[t] = "error"
    /\ trace' = [trace EXCEPT ![t] = Append(@, Event("process_failure", "exception", how))]
    /\ exception' = [exception EXCEPT ![t] = IF Attached(t, how) THEN ndisp[t] ELSE @]
    /\ exc' = [exc EXCEPT ![t] = IF how = "raises" THEN "on_failure" ELSE "error"]
    /\ rpc' = [rpc EXCEPT ![t] = AfterCallback(how = "raises")]
    /\ UNCHANGED <<execution, force_run, disabled, start_cond, _status, start_time,
                   thread_terminate, force_termination, _thread, _process>>
    /\ UNCHANGED <<sinkvars, copyvars, dpc, pend, outcome,
                   event_is_running, ndisp, mark, passed_run, last_call, bool_call>>
    /\ UNCHANGED sidevars

\* The finally clause: process_finish(status), then force_run = None. An
\* exception of on_finish leaves the clause before the assignment.
ProcessFinish(t, how) ==
    /\ rpc[t] = "finally"
    /\ trace' = [trace EXCEPT ![t] =
                    Append(@, Event("process_finish",
                                    StatusAtFinally(outcome[t], exc[t]), how))]
    /\ exc' = [exc EXCEPT ![t] = IF how = "raises" THEN "on_finish" ELSE @]
    /\ IF how = "raises"
       THEN UNCHANGED <<force_run, w_force_run>>
       ELSE IF OnCopy(t)
            THEN /\ w_force_run' = [w_force_run EXCEPT ![t] = "None"]
                 /\ UNCHANGED force_run
            ELSE /\ force_run' = [force_run EXCEPT ![t] = "None"]
                 /\ UNCHANGED w_force_run
    /\ rpc' = [rpc EXCEPT ![t] = "exit"]
    /\ UNCHANGED <<execution, disabled, start_cond, _status, start_time, exception,
                   thread_terminate, force_termination, _thread, _process>>
    /\ UNCHANGED <<sinkvars, w_status, dpc, pend, outcome,
                   event_is_running, ndisp, mark, passed_run, last_call, bool_call>>
    /\ UNCHANGED sidevars

\* run_as_main has left, returning or raising exc, into __call__, which
\* returns or raises in turn to the caller of the inline back-end.
CallReturns(t) ==
    /\ rpc[t] = "exit"
    /\ execution[t] = "main"
    /\ dpc' = [dpc EXCEPT ![t] = "idle"]
    /\ Clear(t)
    /\ UNCHANGED <<taskvars, sinkvars, copyvars, event_is_running,
                   ndisp, mark, passed_run, last_call, bool_call>>
    /\ UNCHANGED sidevars

\* run_as_main has left into _run_as_thread and the thread ends.
ThreadEnds(t) ==
    /\ rpc[t] = "exit"
    /\ execution[t] = "thread"
    /\ _thread' = [_thread EXCEPT ![t] = "dead"]
    /\ Clear(t)
    /\ UNCHANGED <<execution, force_run, disabled, start_cond, _status, start_time,
                   exception, thread_terminate, force_termination, _process>>
    /\ UNCHANGED <<sinkvars, copyvars, dpc, event_is_running,
                   ndisp, mark, passed_run, last_call, bool_call>>
    /\ UNCHANGED sidevars

\* run_as_main has left into _run_as_process, which swallows any exception,
\* and the worker process exits; its copy of the task is gone.
WorkerExits(t) ==
    /\ rpc[t] = "exit"
    /\ execution[t] = "process"
    /\ _process' = [_process EXCEPT ![t] = "dead"]
    /\ w_status' = [w_status EXCEPT ![t] = "None"]
    /\ w_force_run' = [w_force_run EXCEPT ![t] = "None"]
    /\ Clear(t)
    /\ UNCHANGED <<execution, force_run, disabled, start_cond, _status, start_time,
                   exception, thread_terminate, force_termination, _thread>>
    /\ UNCHANGED <<sinkvars, dpc, event_is_running,
                   ndisp, mark, passed_run, last_call, bool_call>>
    /\ UNCHANGED sidevars

----------------------------------------------------------------------------
\* The specification of the runtime

Next ==
    \/ \E t \in Tasks : CallMain(t)
    \/ \E t \in Tasks : CallThread(t)
    \/ \E t \in Tasks : CallProcess(t)
    \/ \E t \in Tasks : EventWait(t)
    \/ \E t \in Tasks : LockGet(t)
    \/ \E t \in Tasks : LockEmpty(t)
    \/ \E t \in Tasks : LockCrashed(t)
    \/ \E t \in Tasks : LockRetry(t)
    \/ Drain
    \/ \E t \in Tasks : Terminate(t)
    \/ \E t \in Tasks : SetterEmit(t)
    \/ \E t \in Tasks : SetterStore(t)
    \/ \E t \in Tasks : EventSet(t)
    \/ \E t \in Tasks : WorkerStart(t)
    \/ \E t \in Tasks : WorkerDies(t)
    \/ \E t \in Tasks : WorkerLoggerCrash(t)
    \/ \E t \in Tasks, o \in Outcomes : ExecuteAction(t, o)
    \/ \E t \in Tasks, how \in Callbacks : ProcessSuccess(t, how)
    \/ \E t \in Tasks : RestartHandler(t)
    \/ \E t \in Tasks, how \in Callbacks : ProcessFailure(t, how)
    \/ \E t \in Tasks, how \in Callbacks : ProcessFinish(t, how)
    \/ \E t \in Tasks : CallReturns(t)
    \/ \E t \in Tasks : ThreadEnds(t)
    \/ \E t \in Tasks : WorkerExits(t)

Spec == Init /\ [][Next]_vars

\* Sanity of the model's control state.
TypeOK ==
    /\ \A t \in Tasks : _status[t] \in _actions
    /\ \A t \in Tasks : (rpc[t] # "none") =>
          (dpc[t] = "run_as_main" \/ is_alive(t))
    /\ Cardinality({t \in Tasks : dpc[t] # "idle"}) <= 1

----------------------------------------------------------------------------
\* Thread tasks whose body polls the _thread_terminate_ event it was given
\* and raises TaskTerminationException once the event is set.

InitPolling ==
    /\ InitCommon
    /\ user_cond = "leaf"
    /\ on_task_pre_exists = "raise"
    /\ execution = [t \in Tasks |-> "thread"]
    /\ force_run \in [Tasks -> {"True", "False"}]
    /\ disabled = [t \in Tasks |-> FALSE]
    /\ start_cond = [t \in Tasks |-> "AlwaysTrue"]

\* params without the event: the body polls an event nobody sets.
other_event(t) == FALSE

\* _run_as_thread: params | {"_thread_terminate_": self._thread_terminate}.
\* The event the body polls is the task's own.
_thread_terminate_(t) == thread_terminate[t]

\* The body finds the event set and raises the termination sentinel; while
\* the event is not set the body goes on.
PollBody(t) ==
    /\ _thread_terminate_(t)
    /\ ExecuteAction(t, "termination")

\* The steps of the worker thread of t.
ThreadStep(t) ==
    \/ SetterEmit(t)
    \/ SetterStore(t)
    \/ EventSet(t)
    \/ PollBody(t)
    \/ \E how \in Callbacks : ProcessFinish(t, how)
    \/ ThreadEnds(t)

NextPolling ==
    \/ \E t \in Tasks : CallThread(t)
    \/ \E t \in Tasks : EventWait(t)
    \/ \E t \in Tasks : Terminate(t)
    \/ \E t \in Tasks : SetterEmit(t)
    \/ \E t \in Tasks : SetterStore(t)
    \/ \E t \in Tasks : EventSet(t)
    \/ \E t \in Tasks : PollBody(t)
    \/ \E t \in Tasks, how \in Callbacks : ProcessFinish(t, how)
    \/ \E t \in Tasks : ThreadEnds(t)

\* The worker thread is scheduled fairly: a step it can take is taken.
SpecPolling ==
    /\ InitPolling
    /\ [][NextPolling]_vars
    /\ \A t \in Tasks : WF_vars(ThreadStep(t))

----------------------------------------------------------------------------
\* The runtime with the execution of a task changed between its runs.

\* task.execution = e, while no run of the task is in progress.
SetExecution(t, e) ==
    /\ execution[t] # e
    /\ dpc[t] = "idle"
    /\ rpc[t] = "none"
    /\ ~is_alive(t)
    /\ execution' = [execution EXCEPT ![t] = e]
    /\ UNCHANGED <<force_run, disabled, start_cond, _status, start_time, exception,
                   thread_terminate, force_termination, _thread, _process>>
    /\ UNCHANGED <<sinkvars, copyvars, ctlvars, obsvars, sidevars>>

NextModes ==
    \/ Next
    \/ \E t \in Tasks, e \in Executions : SetExecution(t, e)

SpecModes == Init /\ [][NextModes]_vars

----------------------------------------------------------------------------
\* The should-run check on its own: tasks with any force_run, disabled and
\* start_cond, whose attributes the caller assigns and whose __bool__ the
\* caller calls.

InitBool ==
    /\ InitCommon
    /\ user_cond = "leaf"
    /\ on_task_pre_exists = "raise"
    /\ execution = [t \in Tasks |-> "main"]
    /\ force_run \in [Tasks -> {"True", "False", "None"}]
    /\ disabled \in [Tasks -> BOOLEAN]
    /\ start_cond \in [Tasks -> {"AlwaysTrue", "AlwaysFalse"}]

\* bool(task): the result, with the attributes it was computed from.
CallBool(t) ==
    /\ bool_call' = [bool_call EXCEPT ![t] =
          [called |-> TRUE, force_run |-> force_run[t], disabled |-> disabled[t],
           start_cond |-> start_cond[t], result |-> __bool__(t)]]
    /\ UNCHANGED <<taskvars, sinkvars, copyvars, ctlvars,
                   trace, ndisp, mark, passed_run, last_call>>
    /\ UNCHANGED sidevars

\* task.force_run = v
SetForceRun(t, v) ==
    /\ force_run[t] # v
    /\ force_run' = [force_run EXCEPT ![t] = v]
    /\ UNCHANGED <<execution, disabled, start_cond, _status, start_time, exception,
                   thread_terminate, force_termination, _thread, _process>>
    /\ UNCHANGED <<sinkvars, copyvars, ctlvars, obsvars>>
    /\ UNCHANGED sidevars

\* task.disabled = v
SetDisabled(t, v) ==
    /\ disabled[t] # v
    /\ disabled' = [disabled EXCEPT ![t] = v]
    /\ UNCHANGED <<execution, force_run, start_cond, _status, start_time, exception,
                   thread_terminate, force_termination, _thread, _process>>
    /\ UNCHANGED <<sinkvars, copyvars, ctlvars, obsvars>>
    /\ UNCHANGED sidevars

NextBool ==
    \/ \E t \in Tasks : CallBool(t)
    \/ \E t \in Tasks, v \in {"True", "False"} : SetForceRun(t, v)
    \/ \E t \in Tasks, v \in BOOLEAN : SetDisabled(t, v)

SpecBool == InitBool /\ [][NextBool]_vars

----------------------------------------------------------------------------
\* The transition methods on their own: a caller that calls log_running,
\* log_success, log_failure, log_termination and log_inaction on idle tasks,
\* in any order.

\* One call of a transition method: the whole status setter.
LogCall(t, m) ==
    /\ Len(log[t]) < MaxCalls
    /\ ValueOf(m).action \in _actions
    /\ EmitParent(t, ValueOf(m))
    /\ StoreParent(t, ValueOf(m))
    /\ last_call' = [last_call EXCEPT ![t] = m]
    /\ UNCHANGED <<execution, force_run, disabled, start_cond, exception,
                   _thread, _process>>
    /\ UNCHANGED <<force_status_from_logs, start_method, queue, copyvars, ctlvars,
                   trace, ndisp, mark, bool_call>>
    /\ UNCHANGED sidevars

NextLog == \E t \in Tasks, m \in Methods : LogCall(t, m)

SpecLog == Init /\ [][NextLog]_vars

----------------------------------------------------------------------------
\* Two schedulers and one thread task. Neither __call__ nor the status setter
\* acquires task._lock (it is created in __init__ and only handed out by the
\* lock property), so a caller's test of the task and its call are two steps,
\* and so are the emit and the store of a transition. The body returns and
\* no callback is set.

InitCallers ==
    /\ InitCommon
    /\ user_cond = "leaf"
    /\ on_task_pre_exists = "raise"
    /\ execution = [t \in Tasks |-> "thread"]
    /\ force_run \in [Tasks -> {"True", "False"}]
    /\ disabled = [t \in Tasks |-> FALSE]
    /\ start_cond = [t \in Tasks |-> "AlwaysTrue"]

\* The thread a caller started is between its start and its end.
WorkerLive(t, c) == worker_pc[t][c] \notin {"none", "ended"}

\* The caller finds that the task should be dispatched.
CallerChecks(t, c) ==
    /\ \A u \in Tasks : caller_pc[u][c] = "idle"
    /\ ~WorkerLive(t, c)
    /\ ShouldDispatch(t)
    /\ caller_pc' = [caller_pc EXCEPT ![t][c] = "checked"]
    /\ UNCHANGED <<taskvars, sinkvars, copyvars, ctlvars, obsvars,
                   worker_pc, thread_owner>>
    /\ UNCHANGED <<namevars, condvars, statvars, depvars, bridgevars>>

\* __call__ and run_as_thread up to event_is_running.wait(): the handles are
\* deleted, a new thread is created, stored in _thread and started.
CallerCalls(t, c) ==
    /\ caller_pc[t][c] = "checked"
    /\ _process' = [_process EXCEPT ![t] = del_handle(@)]
    /\ _thread' = [_thread EXCEPT ![t] = "alive"]
    /\ thread_owner' = [thread_owner EXCEPT ![t] = c]
    /\ thread_terminate' = [thread_terminate EXCEPT ![t] = FALSE]
    /\ start_time' = [start_time EXCEPT ![t] = TRUE]
    /\ worker_pc' = [worker_pc EXCEPT ![t][c] = "emit_run"]
    /\ caller_pc' = [caller_pc EXCEPT ![t][c] = "event_wait"]
    /\ Dispatched(t)
    /\ UNCHANGED <<execution, force_run, disabled, start_cond, _status,
                   exception, force_termination>>
    /\ UNCHANGED <<sinkvars, copyvars, ctlvars, trace, last_call, bool_call>>
    /\ UNCHANGED <<namevars, condvars, statvars, depvars, bridgevars>>

\* The Event of this call has been set by the thread of this call.
EventIsSet(t, c) ==
    worker_pc[t][c] \in {"body", "emit_end", "store_end", "finally", "ended"}

\* event_is_running.wait() returns, and with it __call__.
CallerReturns(t, c) ==
    /\ caller_pc[t][c] = "event_wait"
    /\ EventIsSet(t, c)
    /\ caller_pc' = [caller_pc EXCEPT ![t][c] = "idle"]
    /\ UNCHANGED <<taskvars, sinkvars, copyvars, ctlvars, obsvars,
                   worker_pc, thread_owner>>
    /\ UNCHANGED <<namevars, condvars, statvars, depvars, bridgevars>>

\* The value the thread is assigning to status.
ThreadValue(pc) == IF pc \in {"emit_run", "store_run"} THEN log_running ELSE log_success

\* The status setter in the thread, first half: the record is logged.
ThreadEmit(t, c) ==
    /\ worker_pc[t][c] \in {"emit_run", "emit_end"}
    /\ EmitParent(t, ThreadValue(worker_pc[t][c]))
    /\ worker_pc' = [worker_pc EXCEPT ![t][c] =
                         IF @ = "emit_run" THEN "store_run" ELSE "store_end"]
    /\ UNCHANGED <<execution, force_run, disabled, start_cond, _status, exception,
                   thread_terminate, force_termination, _thread, _process>>
    /\ UNCHANGED <<force_status_from_logs, start_method, queue, copyvars, ctlvars,
                   obsvars, caller_pc, thread_owner>>
    /\ UNCHANGED <<namevars, condvars, statvars, depvars, bridgevars>>

\* The status setter in the thread, second half: _status is assigned.
ThreadStore(t, c) ==
    /\ worker_pc[t][c] \in {"store_run", "store_end"}
    /\ StoreParent(t, ThreadValue(worker_pc[t][c]))
    /\ worker_pc' = [worker_pc EXCEPT ![t][c] =
                         IF @ = "store_run" THEN "event" ELSE "finally"]
    /\ UNCHANGED <<execution, force_run, disabled, start_cond, start_time, exception,
                   _thread, _process>>
    /\ UNCHANGED <<sinkvars, copyvars, ctlvars, trace, ndisp, mark, last_call,
                   bool_call, caller_pc, thread_owner>>
    /\ UNCHANGED <<namevars, condvars, statvars, depvars, bridgevars>>

\* _run_as_thread: event.set(), then run_as_main(_log_running=False).
ThreadEventSet(t, c) ==
    /\ worker_pc[t][c] = "event"
    /\ worker_pc' = [worker_pc EXCEPT ![t][c] = "body"]
    /\ UNCHANGED <<taskvars, sinkvars, copyvars, ctlvars, obsvars,
                   caller_pc, thread_owner>>
    /\ UNCHANGED <<namevars, condvars, statvars, depvars, bridgevars>>

\* execute_action returns; the else clause starts log_success().
ThreadBody(t, c) ==
    /\ worker_pc[t][c] = "body"
    /\ worker_pc' = [worker_pc EXCEPT ![t][c] = "emit_end"]
    /\ UNCHANGED <<taskvars, sinkvars, copyvars, ctlvars, obsvars,
                   caller_pc, thread_owner>>
    /\ UNCHANGED <<namevars, condvars, statvars, depvars, bridgevars>>

\* The finally clause, then the thread ends; task._thread is dead when it
\* still refers to this thread.
ThreadFinishes(t, c) ==
    /\ worker_pc[t][c] = "finally"
    /\ force_run' = [force_run EXCEPT ![t] = "None"]
    /\ worker_pc' = [worker_pc EXCEPT ![t][c] = "ended"]
    /\ _thread' = [_thread EXCEPT ![t] = IF thread_owner[t] = c THEN "dead" ELSE @]
    /\ UNCHANGED <<execution, disabled, start_cond, _status, start_time, exception,
                   thread_terminate, force_termination, _process>>
    /\ UNCHANGED <<sinkvars, copyvars, ctlvars, obsvars, caller_pc, thread_owner>>
    /\ UNCHANGED <<namevars, condvars, statvars, depvars, bridgevars>>

NextCallers ==
    \/ \E t \in Tasks, c \in Callers : CallerChecks(t, c)
    \/ \E t \in Tasks, c \in Callers : CallerCalls(t, c)
    \/ \E t \in Tasks, c \in Callers : CallerReturns(t, c)
    \/ \E t \in Tasks, c \in Callers : ThreadEmit(t, c)
    \/ \E t \in Tasks, c \in Callers : ThreadStore(t, c)
    \/ \E t \in Tasks, c \in Callers : ThreadEventSet(t, c)
    \/ \E t \in Tasks, c \in Callers : ThreadBody(t, c)
    \/ \E t \in Tasks, c \in Callers : ThreadFinishes(t, c)

SpecCallers == InitCallers /\ [][NextCallers]_vars

----------------------------------------------------------------------------
\* The registry: the name setter on its own, under every collision policy.

InitNames ==
    /\ InitCommon
    /\ user_cond = "leaf"
    /\ on_task_pre_exists \in Policies
    /\ execution = [t \in Tasks |-> "main"]
    /\ force_run = [t \in Tasks |-> "False"]
    /\ disabled = [t \in Tasks |-> FALSE]
    /\ start_cond = [t \in Tasks |-> "AlwaysTrue"]

\* The setter leaving the old name registered.
keep_old(reg, old_name) == reg

\* del self.session.tasks[old_name]
del_old(reg, old_name) == [n \in DOMAIN reg \ {old_name} |-> reg[n]]

\* A counter that skips every other suffix.
skip_suffix(i) == i + 2

\* The next value of count().
next_suffix(i) == i + 1

\* for i in count(): the first i from i on for which name + str(i) is not in
\* the registry.
RECURSIVE free_suffix(_, _, _)
free_suffix(reg, name, i) ==
    IF (name \o ToString(i)) \notin DOMAIN reg THEN i
    ELSE free_suffix(reg, name, next_suffix(i))

\* A setter in which no policy raises.
raises_never(on_exists) == FALSE

\* elif on_exists == "raise"
raises_on(on_exists) == on_exists = "raise"

\* The end of the setter: self._name = str(name), then the old name, if
\* there was one, is deleted from the registry (a KeyError when it is not a
\* key of the registry).
SetAndDelete(reg, old_name, name) ==
    IF old_name = NoName THEN [tasks |-> reg, name |-> name, result |-> "ok"]
    ELSE IF old_name \in DOMAIN reg
         THEN [tasks |-> del_old(reg, old_name), name |-> name, result |-> "ok"]
         ELSE [tasks |-> reg, name |-> name, result |-> "KeyError"]

\* The setter called with a name that is not in the registry (the else
\* branch, and the call self.name = new_name of the rename branch).
SetFree(reg, o, old_name, name) ==
    IF name = old_name THEN [tasks |-> reg, name |-> old_name, result |-> "ok"]
    ELSE SetAndDelete(reg @@ (name :> o), old_name, name)

\* Task.name (setter) of object o called with name, under the policy
\* on_exists: the registry, the name of o and the result afterwards.
name_setter(reg, o, old_name, name, on_exists) ==
    IF name = old_name THEN [tasks |-> reg, name |-> old_name, result |-> "ok"]
    ELSE IF name \in DOMAIN reg
    THEN IF on_exists = "replace"
         THEN SetAndDelete([reg EXCEPT ![name] = o], old_name, name)
         ELSE IF raises_on(on_exists)
         THEN [tasks |-> reg, name |-> old_name, result |-> "KeyError"]
         ELSE IF on_exists = "rename"
         THEN SetFree(reg, o, old_name, name \o ToString(free_suffix(reg, name, 0)))
         ELSE SetAndDelete(reg, old_name, name)
    ELSE SetAndDelete(reg @@ (name :> o), old_name, name)

\* task.name = name, in __init__ for an object without a name yet, or later.
AssignName(o, name) ==
    LET after == name_setter(tasks, o, _name[o], name, on_task_pre_exists)
    IN /\ tasks' = after.tasks
       /\ _name' = [_name EXCEPT ![o] = after.name]
       /\ name_call' = [called |-> TRUE, obj |-> o, requested |-> name,
                        old |-> _name[o],
                        registered |-> /\ _name[o] \in DOMAIN tasks
                                       /\ tasks[_name[o]] = o,
                        collided |-> name \in DOMAIN tasks,
                        before |-> tasks,
                        result |-> after.result]
       /\ UNCHANGED <<taskvars, sinkvars, copyvars, ctlvars, obsvars, racevars,
                      on_task_pre_exists, condvars, statvars, depvars, bridgevars>>

NextNames == \E o \in Objects, name \in GivenNames : AssignName(o, name)

SpecNames == InitNames /\ [][NextNames]_vars

----------------------------------------------------------------------------
\* Direct assignments to task.status: any action, tupled with a message or
\* not, on idle tasks.

\* The values a caller assigns to task.status.
StatusValues ==
    [action : StatusInputs, msg : {""}, tuple : {FALSE}]
        \cup [action : StatusInputs, msg : {"m"}, tuple : {TRUE}]

\* A test that lets every action through.
any_action(action) == TRUE

\* action in self._actions
valid_action(action) == action \in _actions

\* task.status = value: the whole status setter. An action that is not in
\* _actions raises KeyError; None is stored without a record.
AssignStatus(t, value) ==
    /\ Len(log[t]) < MaxCalls
    /\ status_call' = [called |-> TRUE, task |-> t, value |-> value,
                       before |-> [_status |-> _status[t],
                                   start_time |-> start_time[t],
                                   log |-> log[t]],
                       result |-> IF valid_action(value.action) THEN "ok"
                                  ELSE "KeyError"]
    /\ IF valid_action(value.action)
       THEN /\ IF value.action # "None" THEN EmitParent(t, value)
               ELSE UNCHANGED <<log, start_time>>
            /\ StoreParent(t, value)
       ELSE UNCHANGED <<log, start_time, _status, passed_run, thread_terminate,
                        force_termination>>
    /\ UNCHANGED <<execution, force_run, disabled, start_cond, exception,
                   _thread, _process>>
    /\ UNCHANGED <<force_status_from_logs, start_method, queue, copyvars, ctlvars,
                   trace, ndisp, mark, last_call, bool_call>>
    /\ UNCHANGED <<racevars, namevars, condvars, depvars, bridgevars>>

NextStatus == \E t \in Tasks, value \in StatusValues : AssignStatus(t, value)

SpecStatus == Init /\ [][NextStatus]_vars

----------------------------------------------------------------------------
\* Two process tasks dispatched by one scheduler thread with one shared
\* log_queue. A worker logs run, then how its body ended, and exits; it can
\* die before it logs anything.

InitBridge ==
    /\ InitCommon
    /\ ~force_status_from_logs
    /\ start_method = "fork"
    /\ user_cond = "leaf"
    /\ on_task_pre_exists = "raise"
    /\ execution = [t \in Tasks |-> "process"]
    /\ force_run = [t \in Tasks |-> "False"]
    /\ disabled = [t \in Tasks |-> FALSE]
    /\ start_cond = [t \in Tasks |-> "AlwaysTrue"]

\* The actions a worker logs after run, for a body that returned and for a
\* body that was terminated.
BodyEnds == {"success", "terminate"}

\* The record a worker's QueueHandler puts on the bridge.
BridgeRecord(t, action) ==
    [task_name |-> t, action |-> action, process |-> processes[t].pid]

\* The replay done on the dispatching task itself.
get_self(t, record) == t

\* self.session.get_task(record.task_name)
get_task(t, record) == record.task_name

\* task.log_record(record): the record is handled by the parent's logger of
\* that task and the task's _status becomes the record's action.
BridgeReplay(task, record) ==
    /\ session_log' = [session_log EXCEPT ![task] =
                          Append(@, [action |-> record.action,
                                     process |-> record.process])]
    /\ cached_status' = [cached_status EXCEPT ![task] = record.action]

\* run_as_process up to _lock_to_run_log: the worker process is started.
BridgeDispatch(t) ==
    /\ lock_to_run = NoLock
    /\ spawned < MaxSpawn
    /\ ~processes[t].alive
    /\ cached_status[t] # "run"
    /\ spawned' = spawned + 1
    /\ processes' = [processes EXCEPT ![t] =
                        [pid |-> spawned + 1, alive |-> TRUE, pc |-> "setup"]]
    /\ lock_to_run' = [task |-> t, pc |-> "get"]
    /\ UNCHANGED <<log_queue, session_log, cached_status, worker_logged, drain_end>>
    /\ UNCHANGED <<taskvars, sinkvars, copyvars, ctlvars, obsvars, racevars,
                   namevars, condvars, statvars, depvars>>

\* _lock_to_run_log: log_queue.get returned a record; it is replayed, and
\* the loop ends when its action is "run".
BridgeLockGet(t) ==
    /\ lock_to_run = [task |-> t, pc |-> "get"]
    /\ log_queue # <<>>
    /\ log_queue' = Tail(log_queue)
    /\ BridgeReplay(get_task(t, Head(log_queue)), Head(log_queue))
    /\ IF LoopEnds(Head(log_queue).action)
       THEN /\ lock_to_run' = NoLock
            /\ drain_end' = [by |-> "run", task |-> t, pid |-> processes[t].pid,
                             record |-> Head(log_queue)]
       ELSE UNCHANGED <<lock_to_run, drain_end>>
    /\ UNCHANGED <<processes, spawned, worker_logged>>
    /\ UNCHANGED <<taskvars, sinkvars, copyvars, ctlvars, obsvars, racevars,
                   namevars, condvars, statvars, depvars>>

\* _lock_to_run_log: log_queue.get timed out on an empty bridge.
BridgeLockEmpty(t) ==
    /\ lock_to_run = [task |-> t, pc |-> "get"]
    /\ log_queue = <<>>
    /\ lock_to_run' = [task |-> t, pc |-> "empty"]
    /\ UNCHANGED <<log_queue, session_log, cached_status, processes, spawned,
                   worker_logged, drain_end>>
    /\ UNCHANGED <<taskvars, sinkvars, copyvars, ctlvars, obsvars, racevars,
                   namevars, condvars, statvars, depvars>>

\* _lock_to_run_log after Empty, the worker not alive: "crashed in setup"
\* is written through the task's logger and the dispatch returns.
BridgeLockCrashed(t) ==
    /\ lock_to_run = [task |-> t, pc |-> "empty"]
    /\ ~processes[t].alive
    /\ session_log' = [session_log EXCEPT ![t] =
                          Append(@, [action |-> "fail", process |-> 0])]
    /\ lock_to_run' = NoLock
    /\ drain_end' = [NoDrainEnd EXCEPT !.by = "crashed", !.task = t,
                                       !.pid = processes[t].pid]
    /\ UNCHANGED <<log_queue, cached_status, processes, spawned, worker_logged>>
    /\ UNCHANGED <<taskvars, sinkvars, copyvars, ctlvars, obsvars, racevars,
                   namevars, condvars, statvars, depvars>>

\* _lock_to_run_log after Empty, the worker alive: the loop waits again.
BridgeLockRetry(t) ==
    /\ lock_to_run = [task |-> t, pc |-> "empty"]
    /\ processes[t].alive
    /\ lock_to_run' = [task |-> t, pc |-> "get"]
    /\ UNCHANGED <<log_queue, session_log, cached_status, processes, spawned,
                   worker_logged, drain_end>>
    /\ UNCHANGED <<taskvars, sinkvars, copyvars, ctlvars, obsvars, racevars,
                   namevars, condvars, statvars, depvars>>

\* The scheduler's drain of the bridge between dispatches: one record is
\* popped and replayed on the task it names.
BridgeDrain ==
    /\ lock_to_run = NoLock
    /\ log_queue # <<>>
    /\ log_queue' = Tail(log_queue)
    /\ BridgeReplay(Head(log_queue).task_name, Head(log_queue))
    /\ UNCHANGED <<processes, spawned, lock_to_run, worker_logged, drain_end>>
    /\ UNCHANGED <<taskvars, sinkvars, copyvars, ctlvars, obsvars, racevars,
                   namevars, condvars, statvars, depvars>>

\* The worker of t logs: run when run_as_main is entered, then the action
\* of the way the body ended.
BridgeWorkerLogs(t, action) ==
    /\ processes[t].alive
    /\ \/ processes[t].pc = "setup" /\ action = "run"
       \/ processes[t].pc = "body" /\ action \in BodyEnds
    /\ log_queue' = Append(log_queue, BridgeRecord(t, action))
    /\ worker_logged' = [worker_logged EXCEPT ![t] = Append(@, BridgeRecord(t, action))]
    /\ processes' = [processes EXCEPT ![t].pc =
                        IF action = "run" THEN "body" ELSE "exit"]
    /\ UNCHANGED <<session_log, cached_status, spawned, lock_to_run, drain_end>>
    /\ UNCHANGED <<taskvars, sinkvars, copyvars, ctlvars, obsvars, racevars,
                   namevars, condvars, statvars, depvars>>

\* The worker process ends: after run_as_main has left, or before
\* run_as_main was entered (it died in setup).
BridgeWorkerEnds(t) ==
    /\ processes[t].alive
    /\ processes[t].pc \in {"setup", "exit"}
    /\ processes' = [processes EXCEPT ![t].alive = FALSE, ![t].pc = "none"]
    /\ UNCHANGED <<log_queue, session_log, cached_status, spawned, lock_to_run,
                   worker_logged, drain_end>>
    /\ UNCHANGED <<taskvars, sinkvars, copyvars, ctlvars, obsvars, racevars,
                   namevars, condvars, statvars, depvars>>

NextBridge ==
    \/ \E t \in BridgeTasks : BridgeDispatch(t)
    \/ \E t \in BridgeTasks : BridgeLockGet(t)
    \/ \E t \in BridgeTasks : BridgeLockEmpty(t)
    \/ \E t \in BridgeTasks : BridgeLockCrashed(t)
    \/ \E t \in BridgeTasks : BridgeLockRetry(t)
    \/ BridgeDrain
    \/ \E t \in BridgeTasks, action \in BodyEnds \cup {"run"} :
          BridgeWorkerLogs(t, action)
    \/ \E t \in BridgeTasks : BridgeWorkerEnds(t)

SpecBridge == InitBridge /\ [][NextBridge]_vars

----------------------------------------------------------------------------
\* Dependencies: a task "A" whose start_cond is AlwaysTrue and a task "B"
\* constructed with a start_cond or none and with dependent, and the runs of
\* the two.

\* The index of the last record of the task with the action, 0 when none.
LastIndex(h, task, action) ==
    LET found == {i \in 1..Len(h) : h[i].task_name = task /\ h[i].action = action}
    IN IF found = {} THEN 0 ELSE CHOOSE i \in found : \A j \in found : j <= i

\* DependSuccess(depend_task, task): depend_task succeeded more recently
\* than task last ran.
DependSuccess(h, depend_task, task) ==
    LastIndex(h, depend_task, "success") > LastIndex(h, task, "run")

\* bool() of a leaf of B's start_cond.
EvalLeaf(h, leaf) ==
    CASE leaf = "AlwaysTrue" -> TRUE
      [] leaf = "AlwaysFalse" -> FALSE
      [] leaf = "DependSuccess" -> DependSuccess(h, "A", "B")

\* The start_cond __init__ assigns before dependent is looked at.
DefaultStart(given) == IF given = "None" THEN "AlwaysFalse" ELSE given

\* The dependent setter: nothing for an empty list, else
\* self.start_cond &= All(DependSuccess(...)).
dependent_setter(cond, deps) ==
    IF deps = {} THEN cond ELSE cond \cup {"DependSuccess"}

\* B.__bool__(): force_run and disabled are False, so bool(start_cond), the
\* conjunction of its leaves.
ShouldRunB == \A leaf \in dependent_task.start_cond : EvalLeaf(history, leaf)

\* B = Task(start_cond=given, dependent=deps).
ConstructDependent(given, deps) ==
    /\ ~dependent_task.constructed
    /\ dependent_task' = [constructed |-> TRUE, given |-> given, dependent |-> deps,
                          start_cond |-> dependent_setter({DefaultStart(given)}, deps)]
    /\ UNCHANGED <<taskvars, sinkvars, copyvars, ctlvars, obsvars, racevars,
                   namevars, condvars, statvars, bridgevars, history>>

\* A run of A or B with execution main: the run record and the record of
\* how the body ended.
RunTask(x, action) ==
    /\ Len(history) + 2 <= MaxHistory
    /\ x = "B" => dependent_task.constructed
    /\ history' = history \o <<[task_name |-> x, action |-> "run"],
                               [task_name |-> x, action |-> action]>>
    /\ UNCHANGED <<taskvars, sinkvars, copyvars, ctlvars, obsvars, racevars,
                   namevars, condvars, statvars, bridgevars, dependent_task>>

NextDepend ==
    \/ \E given \in {"None", "AlwaysTrue"}, deps \in {{}, {"A"}} :
          ConstructDependent(given, deps)
    \/ \E x \in {"A", "B"}, action \in {"success", "fail"} : RunTask(x, action)

SpecDepend == Init /\ [][NextDepend]_vars

----------------------------------------------------------------------------
\* The conditions of one Task: the constructor, the setters of start_cond
\* and end_cond, the plain attribute run_cond, and a caller who goes on
\* changing the tree it passed.

InitConds ==
    /\ InitCommon
    /\ on_task_pre_exists = "raise"
    /\ user_cond \in {"leaf", "root"}
    /\ execution = [t \in Tasks |-> "main"]
    /\ force_run = [t \in Tasks |-> "False"]
    /\ disabled = [t \in Tasks |-> FALSE]
    /\ start_cond = [t \in Tasks |-> "AlwaysTrue"]

\* bool(node): All is the conjunction of its subconditions.
RECURSIVE EvalNode(_, _)
EvalNode(h, n) ==
    IF h[n].kind = "All" THEN \A sub \in h[n].subs : EvalNode(h, sub)
    ELSE h[n].value

\* bool(cond) of the value of a condition attribute.
EvaluateCond(h, v) ==
    IF v.type = "Condition" /\ v.ref # "none" THEN EvalNode(h, v.ref) ELSE v.val

\* The value a caller passes.
ArgValue(a) ==
    CASE a = "tree" -> Ref(user_cond)
      [] a = "True" -> Bool(TRUE)
      [] a = "False" -> Bool(FALSE)
      [] OTHER -> Other

\* Task._validate_cond: the value is a BaseCondition or a bool.
_validate_cond(v) == v.type \in {"Condition", "bool"}

\* The object copy(cond) makes for each constructor argument.
CopyNode(c) ==
    CASE c = "start_cond" -> "copy_start"
      [] c = "run_cond" -> "copy_run"
      [] c = "end_cond" -> "copy_end"

\* The constructor's value for an argument: the default when None, else
\* copy(argument). copy is copy.copy: for a condition object a new object
\* with the same attributes, so with the same subcondition objects.
Copied(c, a) ==
    IF a = "None" THEN Always(c = "run_cond")
    ELSE IF a = "tree" THEN Ref(CopyNode(c))
    ELSE ArgValue(a)

CondsNow == <<_start_cond, run_cond, _end_cond>>

\* What is remembered of a condition given from the caller's tree.
Given(h, a, v) == [given |-> a = "tree", result |-> EvaluateCond(h, v)]

\* Task.__init__: the three conditions. A start_cond or end_cond that fails
\* the validation of its setter ends the construction with TypeError.
Construct(as, ar, ae) ==
    /\ ~constructed
    /\ ar # "other"
    /\ LET h == [n \in Nodes |->
                    IF \/ (n = "copy_start" /\ as = "tree")
                       \/ (n = "copy_run" /\ ar = "tree")
                       \/ (n = "copy_end" /\ ae = "tree")
                    THEN heap[user_cond] ELSE heap[n]]
           vs == Copied("start_cond", as)
           vr == Copied("run_cond", ar)
           ve == Copied("end_cond", ae)
       IN IF _validate_cond(vs) /\ _validate_cond(ve)
          THEN /\ constructed' = TRUE
               /\ heap' = h
               /\ _start_cond' = vs
               /\ run_cond' = vr
               /\ _end_cond' = ve
               /\ assigned' = [c \in Conditions |->
                     CASE c = "start_cond" -> Given(h, as, vs)
                       [] c = "run_cond" -> Given(h, ar, vr)
                       [] c = "end_cond" -> Given(h, ae, ve)]
               /\ cond_call' = [called |-> TRUE, cond |-> "start_cond", arg |-> as,
                                before |-> CondsNow, result |-> "ok"]
          ELSE /\ cond_call' = [called |-> TRUE,
                                cond |-> IF _validate_cond(vs) THEN "end_cond"
                                         ELSE "start_cond",
                                arg |-> IF _validate_cond(vs) THEN ae ELSE as,
                                before |-> CondsNow, result |-> "TypeError"]
               /\ UNCHANGED <<heap, constructed, _start_cond, run_cond, _end_cond,
                              assigned>>
    /\ UNCHANGED <<taskvars, sinkvars, copyvars, ctlvars, obsvars, racevars,
                   namevars, statvars, depvars, bridgevars, user_cond>>

\* task.start_cond = value and task.end_cond = value: the setter validates
\* the value and stores it as it is.
SetCond(c, a) ==
    /\ constructed
    /\ c \in {"start_cond", "end_cond"}
    /\ cond_call' = [called |-> TRUE, cond |-> c, arg |-> a, before |-> CondsNow,
                     result |-> IF _validate_cond(ArgValue(a)) THEN "ok" ELSE "TypeError"]
    /\ IF _validate_cond(ArgValue(a))
       THEN /\ _start_cond' = IF c = "start_cond" THEN ArgValue(a) ELSE _start_cond
            /\ _end_cond' = IF c = "end_cond" THEN ArgValue(a) ELSE _end_cond
            /\ assigned' = [assigned EXCEPT ![c] = Given(heap, a, ArgValue(a))]
       ELSE UNCHANGED <<_start_cond, _end_cond, assigned>>
    /\ UNCHANGED <<taskvars, sinkvars, copyvars, ctlvars, obsvars, racevars,
                   namevars, statvars, depvars, bridgevars, heap, user_cond, constructed, run_cond>>

\* task.run_cond = value: a plain attribute, there is no setter.
SetRunCond(a) ==
    /\ constructed
    /\ run_cond' = ArgValue(a)
    /\ assigned' = [assigned EXCEPT !["run_cond"] = [given |-> FALSE, result |-> FALSE]]
    /\ cond_call' = [called |-> TRUE, cond |-> "run_cond", arg |-> a,
                     before |-> CondsNow, result |-> "ok"]
    /\ UNCHANGED <<taskvars, sinkvars, copyvars, ctlvars, obsvars, racevars,
                   namevars, statvars, depvars, bridgevars, heap, user_cond, constructed, _start_cond, _end_cond>>

\* The caller changes the leaf of its tree in place.
MutateLeaf ==
    /\ heap' = [heap EXCEPT !["leaf"].value = ~@]
    /\ UNCHANGED <<taskvars, sinkvars, copyvars, ctlvars, obsvars, racevars,
                   namevars, statvars, depvars, bridgevars, user_cond, constructed, _start_cond, run_cond,
                   _end_cond, assigned, cond_call>>

\* The caller gives the root of its tree another list of subconditions.
MutateRoot ==
    /\ user_cond = "root"
    /\ heap' = [heap EXCEPT !["root"].subs = IF @ = {} THEN {"leaf"} ELSE {}]
    /\ UNCHANGED <<taskvars, sinkvars, copyvars, ctlvars, obsvars, racevars,
                   namevars, statvars, depvars, bridgevars, user_cond, constructed, _start_cond, run_cond,
                   _end_cond, assigned, cond_call>>

NextConds ==
    \/ \E as, ar, ae \in Arguments : Construct(as, ar, ae)
    \/ \E c \in Conditions, a \in Arguments : SetCond(c, a)
    \/ \E a \in Arguments : SetRunCond(a)
    \/ MutateLeaf
    \/ MutateRoot

SpecConds == InitConds /\ [][NextConds]_vars

----------------------------------------------------------------------------
\* Properties

\* C1: for every force_run, disabled and start_cond, __bool__ returns true if
\* force_run is true; otherwise false if disabled; otherwise what evaluating
\* start_cond gives.
C1_ShouldRun ==
    \A t \in Tasks :
        bool_call[t].called =>
            /\ (bool_call[t].force_run = "True") => bool_call[t].result
            /\ (bool_call[t].force_run # "True" /\ bool_call[t].disabled) =>
                   ~bool_call[t].result
            /\ (bool_call[t].force_run # "True" /\ ~bool_call[t].disabled) =>
                   (bool_call[t].result <=> bool_call[t].start_cond = "AlwaysTrue")

\* A forced task that is disabled was asked and answered true.
C1_Witness ==
    \E t \in Tasks :
        /\ bool_call[t].called
        /\ bool_call[t].force_run = "True"
        /\ bool_call[t].disabled
        /\ bool_call[t].result

\* The action each transition method stands for.
ActionOfCall(m) ==
    CASE m = "log_running" -> "run"
      [] m = "log_success" -> "success"
      [] m = "log_failure" -> "fail"
      [] m = "log_termination" -> "terminate"
      [] m = "log_inaction" -> "inaction"

\* C2: after any sequence of calls of the transition methods on a task, its
\* status is the action of the last call, and is_running holds exactly when
\* the last call was log_running.
C2_StatusIsLastCall ==
    \A t \in Tasks :
        last_call[t] # "none" =>
            /\ status(t) = ActionOfCall(last_call[t])
            /\ is_running(t) <=> last_call[t] = "log_running"

\* log_failure was called last, after two other calls, and the cached status
\* is read.
C2_Witness ==
    \E t \in Tasks :
        /\ last_call[t] = "log_failure"
        /\ Len(log[t]) = 3
        /\ ~force_status_from_logs
        /\ status(t) = "fail"

\* No transition of the parent's Task is between its emit and its store.
Steady(t) == OnCopy(t) \/ rpc[t] # "store"

\* C3: in steady state the cached status of a task is the action of the most
\* recent record of the task in the parent's log (both query modes agree).
C3_ModesAgree ==
    \A t \in Tasks : Steady(t) => _status[t] = get_latest(t).action

TerminalActions == {"success", "fail", "terminate", "inaction", "crash_release"}

\* The fail records a process dispatch writes for a worker that crashed
\* before its run started.
SetupCrash(r) ==
    r.action = "fail" /\ r.msg \in {"crashed in setup", "crashed in setting up logger"}

RunsOf(t) == {i \in DOMAIN log[t] : log[t][i].action = "run"}

\* The position of the next run record after position i, or the end.
NextRun(t, i) ==
    IF \E j \in RunsOf(t) : j > i
    THEN CHOOSE j \in RunsOf(t) : j > i /\ \A k \in RunsOf(t) : k > i => j <= k
    ELSE Len(log[t]) + 1

TerminalsAfter(t, i) ==
    {k \in (i + 1)..(NextRun(t, i) - 1) : log[t][k].action \in TerminalActions}

OwnTerminalsAfter(t, i) ==
    {k \in TerminalsAfter(t, i) : ~SetupCrash(log[t][k])}

\* C4 as stated: in the record sequence of a task, each run record is
\* followed by exactly one terminal record before the next run record.
C4_OneTerminalPerRun ==
    \A t \in Tasks : \A i \in RunsOf(t) :
        /\ Cardinality(TerminalsAfter(t, i)) <= 1
        /\ NextRun(t, i) <= Len(log[t]) => Cardinality(TerminalsAfter(t, i)) = 1

\* C4 amended: each run record is followed, before the next run record, by
\* exactly one terminal record of the run itself; the fail records of
\* dispatches whose worker crashed in setup may stand there as well.
C4_OneOwnTerminalPerRun ==
    \A t \in Tasks : \A i \in RunsOf(t) :
        /\ Cardinality(OwnTerminalsAfter(t, i)) <= 1
        /\ NextRun(t, i) <= Len(log[t]) => Cardinality(OwnTerminalsAfter(t, i)) = 1

\* A task whose log holds a run, its terminal record, and the next run.
C4_Witness ==
    \E t \in Tasks : \E i \in RunsOf(t) :
        /\ NextRun(t, i) <= Len(log[t])
        /\ Cardinality(TerminalsAfter(t, i)) = 1

\* The parent leaves the proof-of-start wait of the dispatch of t.
DispatchReturns(t) ==
    /\ dpc[t] \in {"event_wait", "lock_get", "lock_empty"}
    /\ dpc'[t] = "idle"

\* A run record of t was written to the parent's log since t was dispatched.
RunWritten(t) ==
    \E i \in (mark[t] + 1)..Len(log[t]) : log[t][i].action = "run"

C6_TimeoutEndsWait ==
    [][\A t \in Tasks :
          (dpc[t] = "lock_empty" /\ dpc'[t] # "lock_empty") =>
             /\ dpc'[t] = "idle"
             /\ log'[t] = Append(log[t],
                                 [action |-> "fail", msg |-> "crashed in setup"])]_vars

FinishReached(t) ==
    \E i \in DOMAIN trace[t] : trace[t][i].ev = "process_finish"

\* C7: once the run of a dispatched task has gone through its finish step,
\* force_run of the parent's Task is no longer true, for every back-end and
\* whatever the body and the callbacks did.
C7_ForceRunCleared ==
    \A t \in Tasks :
        (rpc[t] = "exit" /\ FinishReached(t)) => force_run[t] # "True"

\* The events of the run, by name.
EventsOf(t, ev) == {i \in DOMAIN trace[t] : trace[t][i].ev = ev}

TerminalLogged(t, action) ==
    \E i \in DOMAIN trace[t] : trace[t][i] = Event("log", action, "")

\* C8: a SchedulerRestart of the body is recorded as success, on_success and
\* on_finish are invoked, and the same SchedulerRestart leaves run_as_main.
C8_RestartReraised ==
    \A t \in Tasks :
        (rpc[t] = "exit" /\ outcome[t] = "restart") =>
            /\ TerminalLogged(t, "success")
            /\ Cardinality(EventsOf(t, "process_success")) = 1
            /\ Cardinality(EventsOf(t, "process_finish")) = 1
            /\ exc[t] = "SchedulerRestart"

\* C9: on_finish is invoked exactly once per run in every terminal path, and
\* always after the terminal record was emitted and after on_success and
\* on_failure.
C9_FinishOnce ==
    \A t \in Tasks :
        /\ Cardinality(EventsOf(t, "process_finish")) <= 1
        /\ rpc[t] = "exit" => Cardinality(EventsOf(t, "process_finish")) = 1
        /\ \A i \in EventsOf(t, "process_finish") :
              /\ \E k \in 1..(i - 1) :
                    /\ trace[t][k].ev = "log"
                    /\ trace[t][k].arg \in TerminalActions
              /\ \A k \in EventsOf(t, "process_success") \cup
                          EventsOf(t, "process_failure") : k < i

\* A run in which on_failure raised has left, on_finish called after it.
C9_Witness ==
    \E t \in Tasks :
        /\ rpc[t] = "exit"
        /\ \E i \in EventsOf(t, "process_failure") : trace[t][i].how = "raises"
        /\ \E i \in EventsOf(t, "process_finish") : trace[t][i].how = "returns"

\* The actions of the records written for t since it was dispatched.
RecordsOfDispatch(t) ==
    [i \in 1..(Len(log[t]) - mark[t]) |-> log[t][mark[t] + i].action]

InlineFailure(t) ==
    /\ execution[t] = "main"
    /\ rpc[t] = "exit"
    /\ outcome[t] = "error"

\* What C10 says of the records, the status and the callbacks.
FailureObserved(t) ==
    /\ RecordsOfDispatch(t) = <<"run", "fail">>
    /\ status(t) = "fail"
    /\ _status[t] = "fail"
    /\ Cardinality(EventsOf(t, "process_failure")) = 1
    /\ \A i \in EventsOf(t, "process_failure") : trace[t][i].arg = "exception"
    /\ Cardinality(EventsOf(t, "process_finish")) = 1
    /\ \A i \in EventsOf(t, "process_finish") : trace[t][i].arg = "failed"

CallbackRaised(t, ev) ==
    \E i \in EventsOf(t, ev) : trace[t][i].how = "raises"

\* C10 as stated: when the body of a main task raises an ordinary exception,
\* the records are [run, fail], the status is fail, on_failure is invoked
\* once with the exception, on_finish once with "failed", the exception is
\* attached to the task and the same exception is re-raised.
C10_InlineFailure ==
    \A t \in Tasks :
        InlineFailure(t) =>
            /\ FailureObserved(t)
            /\ exception[t] = ndisp[t]
            /\ exc[t] = "error"

\* C10 amended: the records, the status and the callbacks are as stated; the
\* exception is attached unless on_failure raised; and the exception that
\* leaves is the body's unless a callback raised, in which case it is the
\* callback's (on_finish's before on_failure's).
C10_InlineFailureAmended ==
    \A t \in Tasks :
        InlineFailure(t) =>
            /\ FailureObserved(t)
            /\ ~CallbackRaised(t, "process_failure") => exception[t] = ndisp[t]
            /\ CallbackRaised(t, "process_failure") => exception[t] # ndisp[t]
            /\ exc[t] =
                  IF CallbackRaised(t, "process_finish") THEN "on_finish"
                  ELSE IF CallbackRaised(t, "process_failure") THEN "on_failure"
                  ELSE "error"

\* The second dispatch of a main task fails with both callbacks set and
\* returning: its exception is attached and re-raised.
C10_Witness ==
    \E t \in Tasks :
        /\ InlineFailure(t)
        /\ ndisp[t] = 2
        /\ \E i \in EventsOf(t, "process_failure") : trace[t][i].how = "returns"
        /\ \E i \in EventsOf(t, "process_finish") : trace[t][i].how = "returns"
        /\ exception[t] = 2
        /\ exc[t] = "error"

\* The actions of the records the run has emitted, in order.
LoggedBy(t) ==
    LET idx == {i \in DOMAIN trace[t] : trace[t][i].ev = "log"}
        nth[k \in 0..Cardinality(idx)] ==
            IF k = 0 THEN 0
            ELSE CHOOSE i \in idx : i > nth[k - 1] /\ \A j \in idx : j > nth[k - 1] => i <= j
    IN [k \in 1..Cardinality(idx) |-> trace[t][nth[k]].arg]

\* The cached status of the Task object the run works on.
RunStatus(t) == IF OnCopy(t) THEN w_status[t] ELSE _status[t]

\* The body of the run of t raised the sentinel o and run_as_main has left.
SentinelRun(t, o) == rpc[t] = "exit" /\ outcome[t] = o

\* C11: when the body raises the Inaction sentinel, the records of the run
\* are [run, inaction], the status becomes inaction, neither on_failure nor
\* on_success is invoked, on_finish is invoked with status "inaction", and
\* the sentinel is not re-raised: nothing leaves run_as_main but what
\* on_finish itself raises.
C11_Inaction ==
    \A t \in Tasks :
        SentinelRun(t, "inaction") =>
            /\ LoggedBy(t) = <<"run", "inaction">>
            /\ RunStatus(t) = "inaction"
            /\ ~OnCopy(t) =>
                  /\ RecordsOfDispatch(t) = <<"run", "inaction">>
                  /\ status(t) = "inaction"
            /\ EventsOf(t, "process_failure") = {}
            /\ EventsOf(t, "process_success") = {}
            /\ Cardinality(EventsOf(t, "process_finish")) = 1
            /\ \A i \in EventsOf(t, "process_finish") : trace[t][i].arg = "inaction"
            /\ exc[t] = IF CallbackRaised(t, "process_finish") THEN "on_finish" ELSE "none"

\* The body of a thread task raised Inaction, on_finish was called and
\* returned, and nothing leaves run_as_main.
C11_Witness ==
    \E t \in Tasks :
        /\ SentinelRun(t, "inaction")
        /\ execution[t] = "thread"
        /\ \E i \in EventsOf(t, "process_finish") : trace[t][i].how = "returns"
        /\ exc[t] = "none"
        /\ status(t) = "inaction"

\* C12: when the body raises the Termination sentinel, in every back-end the
\* run is logged as terminate and never as fail, the terminate signal is
\* cleared and force_termination is false afterwards, on_finish is invoked
\* with status "termination", and no exception leaves run_as_main (but what
\* on_finish itself raises).
C12_Termination ==
    \A t \in Tasks :
        SentinelRun(t, "termination") =>
            /\ LoggedBy(t) = <<"run", "terminate">>
            /\ RunStatus(t) = "terminate"
            /\ ~OnCopy(t) => (~thread_terminate[t] /\ ~force_termination[t])
            /\ Cardinality(EventsOf(t, "process_finish")) = 1
            /\ \A i \in EventsOf(t, "process_finish") : trace[t][i].arg = "termination"
            /\ exc[t] = IF CallbackRaised(t, "process_finish") THEN "on_finish" ELSE "none"

\* C12 for the back-ends that work on the task itself (main and thread).
C12_TerminationOwnTask ==
    \A t \in Tasks : ~OnCopy(t) => (SentinelRun(t, "termination") =>
            /\ LoggedBy(t) = <<"run", "terminate">>
            /\ RunStatus(t) = "terminate"
            /\ ~thread_terminate[t] /\ ~force_termination[t]
            /\ Cardinality(EventsOf(t, "process_finish")) = 1
            /\ \A i \in EventsOf(t, "process_finish") : trace[t][i].arg = "termination"
            /\ exc[t] = IF CallbackRaised(t, "process_finish") THEN "on_finish" ELSE "none")

\* A thread task that was asked to stop has raised Termination and left.
C12_Reached ==
    \E t \in Tasks :
        /\ SentinelRun(t, "termination")
        /\ execution[t] = "thread"
        /\ ~thread_terminate[t]
        /\ exception[t] = 0
        /\ \E i \in DOMAIN log[t] : log[t][i].action = "terminate"

\* A transition of t by the thread of c has emitted its record and not yet
\* stored the status.
InTransition(t, c) == worker_pc[t][c] \in {"store_run", "store_end"}

\* A dispatch of t by c is in progress.
InDispatch(t, c) == caller_pc[t][c] = "event_wait"

\* C13: no two transitions of the same task interleave, and no second
\* worker thread is started for a task while a dispatch of that task is in
\* progress, also when two schedulers act on the task concurrently.
C13_Serialised ==
    \A t \in Tasks : \A c, d \in Callers :
        c # d =>
            /\ ~(InTransition(t, c) /\ InTransition(t, d))
            /\ ~(InDispatch(t, c) /\ InDispatch(t, d))
            /\ ~(InDispatch(t, c) /\ WorkerLive(t, c) /\ WorkerLive(t, d))

\* Two threads of one task are both between the emit and the store of
\* their run transition.
C13_Interleaved ==
    \E t \in Tasks : \E c, d \in Callers :
        /\ c # d
        /\ worker_pc[t][c] = "store_run"
        /\ worker_pc[t][d] = "store_run"
        /\ Len(log[t]) = 2

\* The worker handles attached to the task.
Handles(t) ==
    (IF _thread[t] # "unset" THEN {"_thread"} ELSE {}) \cup
    (IF _process[t] # "unset" THEN {"_process"} ELSE {})

\* C14: after any sequence of dispatches, the execution possibly changed in
\* between, a task has at most one worker handle attached, a thread or a
\* process and never both.
C14_OneHandle == \A t \in Tasks : Cardinality(Handles(t)) <= 1

\* A task whose first dispatch was to a process (it crashed in setup) runs
\* its second dispatch in a thread; the thread is its only handle.
C14_Witness ==
    \E t \in Tasks :
        /\ ndisp[t] = 2
        /\ \E i \in DOMAIN log[t] : log[t][i].msg = "crashed in setup"
        /\ Handles(t) = {"_thread"}
        /\ is_alive_as_thread(t)

\* The last assignment gave a registered task a name other than its own.
Renamed ==
    /\ name_call.called
    /\ name_call.registered
    /\ name_call.requested # name_call.old

\* The assignment returned without an exception.
Assigned == name_call.result = "ok"

\* C15 as stated: after assigning a new name N' to a registered task named
\* N, the registry contains N' and not N, and the name of the task is N'.
C15_Rename ==
    (Renamed /\ Assigned) =>
        /\ name_call.requested \in DOMAIN tasks
        /\ name_call.old \notin DOMAIN tasks
        /\ _name[name_call.obj] = name_call.requested

\* The smallest suffix that makes the requested name free in the registry
\* as it was before the assignment.
SmallestFree ==
    LET free(i) == (name_call.requested \o ToString(i)) \notin DOMAIN name_call.before
    IN CHOOSE i \in 0..Cardinality(DOMAIN name_call.before) :
           free(i) /\ \A j \in 0..(i - 1) : ~free(j)

Suffixed == name_call.requested \o ToString(SmallestFree)

\* Every entry of the registry before the assignment that belonged to
\* another task is still there.
OthersKept ==
    \A n \in DOMAIN name_call.before :
        name_call.before[n] # name_call.obj =>
            (n \in DOMAIN tasks /\ tasks[n] = name_call.before[n])

\* C15 amended: when N' is free, or the policy is replace, the registry
\* holds the task under N' and no longer holds N, and the name of the task
\* is N'. When N' is registered already: under raise a key error is raised
\* and nothing changes; under ignore the task is named N' and N is removed,
\* while N' stays registered to the other task; under rename the task is
\* named and registered with the smallest free suffix, and N is removed.
C15_RenameAmended ==
    Renamed =>
        IF ~name_call.collided \/ on_task_pre_exists = "replace"
        THEN /\ name_call.result = "ok"
             /\ name_call.requested \in DOMAIN tasks
             /\ tasks[name_call.requested] = name_call.obj
             /\ name_call.old \notin DOMAIN tasks
             /\ _name[name_call.obj] = name_call.requested
        ELSE IF on_task_pre_exists = "raise"
        THEN /\ name_call.result = "KeyError"
             /\ tasks = name_call.before
             /\ _name[name_call.obj] = name_call.old
        ELSE IF on_task_pre_exists = "ignore"
        THEN /\ name_call.result = "ok"
             /\ _name[name_call.obj] = name_call.requested
             /\ name_call.old \notin DOMAIN tasks
             /\ tasks[name_call.requested] = name_call.before[name_call.requested]
             /\ tasks[name_call.requested] # name_call.obj
        ELSE /\ name_call.result = "ok"
             /\ _name[name_call.obj] = Suffixed
             /\ tasks[Suffixed] = name_call.obj
             /\ name_call.old \notin DOMAIN tasks
             /\ OthersKept

\* A registered task named t has been given the free name u.
C15_Witness ==
    /\ Renamed
    /\ ~name_call.collided
    /\ name_call.old = "t"
    /\ name_call.requested = "u"
    /\ tasks["u"] = name_call.obj
    /\ "t" \notin DOMAIN tasks

\* The last assignment, under the policy rename, gave a task a name that
\* was registered already.
RenameCollision ==
    /\ name_call.called
    /\ on_task_pre_exists = "rename"
    /\ name_call.collided
    /\ name_call.requested # name_call.old

\* C16: under rename, a task given a name that is registered already gets
\* that name with the smallest non-negative integer suffix that makes it
\* free, is registered under it, and every previously registered task stays
\* registered under its own name.
C16_RenameSuffix ==
    RenameCollision =>
        /\ _name[name_call.obj] = Suffixed
        /\ Suffixed \notin DOMAIN name_call.before
        /\ tasks[Suffixed] = name_call.obj
        /\ OthersKept
        /\ \A n \in DOMAIN tasks : _name[tasks[n]] = n

\* With t and t0 registered, a new task given the name t has become t1.
C16_Witness ==
    /\ RenameCollision
    /\ name_call.old = NoName
    /\ DOMAIN name_call.before = {"t", "t0"}
    /\ name_call.requested = "t"
    /\ _name[name_call.obj] = "t1"
    /\ DOMAIN tasks = {"t", "t0", "t1"}

\* The last assignment, under the policy raise, gave a task a name that is
\* registered to another task.
RaiseCollision ==
    /\ name_call.called
    /\ on_task_pre_exists = "raise"
    /\ name_call.collided
    /\ name_call.before[name_call.requested] # name_call.obj

\* C17: under raise, assigning a name that is registered to another task
\* raises a key error and leaves the registry and the name of the task as
\* they were.
C17_RaiseKeepsState ==
    RaiseCollision =>
        /\ name_call.result = "KeyError"
        /\ tasks = name_call.before
        /\ _name[name_call.obj] = name_call.old

\* A registered task named u was refused the name t of another task.
C17_Witness ==
    /\ RaiseCollision
    /\ name_call.old = "u"
    /\ name_call.registered
    /\ name_call.requested = "t"
    /\ name_call.result = "KeyError"
    /\ _name[name_call.obj] = "u"

\* The value of each condition of the task.
CondOf(c) ==
    CASE c = "start_cond" -> _start_cond
      [] c = "run_cond" -> run_cond
      [] c = "end_cond" -> _end_cond

\* C18: mutating a condition tree, its root or a node below it, after it was
\* assigned to a task through the constructor or through the start_cond or
\* end_cond setter, does not change what the task's condition evaluates to.
C18_CopyIsolation ==
    \A c \in Conditions :
        assigned[c].given => EvaluateCond(heap, CondOf(c)) = assigned[c].result

\* The task's start_cond is the very object the caller holds.
C18_Aliased ==
    /\ assigned["start_cond"].given
    /\ _start_cond = Ref(user_cond)
    /\ cond_call.cond = "start_cond"

\* C19: assigning to start_cond, run_cond or end_cond a value that is
\* neither a bool nor a condition is rejected with a type error, and the
\* conditions of the task keep their values.
C19_RejectInvalid ==
    (cond_call.called /\ cond_call.arg = "other") =>
        /\ cond_call.result = "TypeError"
        /\ CondsNow = cond_call.before

\* C19 for the conditions that have a setter, start_cond and end_cond.
C19_SettersReject ==
    (/\ cond_call.called
     /\ cond_call.arg = "other"
     /\ cond_call.cond \in {"start_cond", "end_cond"}) =>
        /\ cond_call.result = "TypeError"
        /\ CondsNow = cond_call.before

\* The task's run_cond holds a value that is neither a bool nor a condition.
C19_InvalidStored ==
    /\ cond_call.called
    /\ cond_call.cond = "run_cond"
    /\ cond_call.arg = "other"
    /\ run_cond = Other

\* C20: assigning to task.status an action outside run, success, fail,
\* terminate, inaction, crash_release and unset (None) raises a key error;
\* the cached status and start_time are unchanged and no record is emitted.
C20_InvalidStatus ==
    (/\ status_call.called
     /\ status_call.value.action \notin
           {"run", "success", "fail", "terminate", "inaction", "crash_release", "None"}) =>
        /\ status_call.result = "KeyError"
        /\ _status[status_call.task] = status_call.before._status
        /\ start_time[status_call.task] = status_call.before.start_time
        /\ log[status_call.task] = status_call.before.log

\* An unknown action was assigned to a task that is running, with records
\* in its log.
C20_Witness ==
    /\ status_call.called
    /\ status_call.value.action = "termination"
    /\ status_call.result = "KeyError"
    /\ _status[status_call.task] = "run"
    /\ start_time[status_call.task]
    /\ Len(log[status_call.task]) > 0

\* B was constructed with dependent=[A] and no start_cond.
DependentOnly ==
    /\ dependent_task.constructed
    /\ dependent_task.given = "None"
    /\ dependent_task.dependent = {"A"}

\* A has run to success and B has not run since.
ASucceededLast ==
    \E i \in 1..Len(history) :
        /\ history[i] = [task_name |-> "A", action |-> "success"]
        /\ \A j \in i+1..Len(history) : history[j].task_name # "B"

\* C21: with A's start_cond AlwaysTrue and B constructed with dependent=[A]
\* and no other condition, B.should_run() is false before A has run to
\* success, true after A has run to success, and false again after B has
\* then run, until A succeeds again.
C21_DependencyGating == DependentOnly => (ShouldRunB <=> ASucceededLast)

\* B depends on A alone, and A has just run to success.
C21_Witness ==
    /\ DependentOnly
    /\ Len(history) > 0
    /\ history[Len(history)] = [task_name |-> "A", action |-> "success"]

\* C21 for a B that was given start_cond AlwaysTrue beside dependent=[A].
C21_GatingWithStartCond ==
    (/\ dependent_task.constructed
     /\ dependent_task.given = "AlwaysTrue"
     /\ dependent_task.dependent = {"A"}) => (ShouldRunB <=> ASucceededLast)

\* The terminate signal of t is set, dispatch has returned and the body of
\* the worker thread is running.
Signalled(t) ==
    /\ execution[t] = "thread"
    /\ dpc[t] = "idle"
    /\ rpc[t] = "body"
    /\ is_alive(t)
    /\ thread_terminate[t]

\* The run of t has ended with the records run, terminate and its thread is
\* not alive.
Cancelled(t) ==
    /\ ~is_alive(t)
    /\ [i \in 1..(Len(log[t]) - mark[t]) |-> log[t][mark[t] + i].action]
          = <<"run", "terminate">>

\* C22: for a thread task whose body polls the event, once the terminate
\* signal is set after dispatch has returned and while the body runs, the
\* records of the run become [run, terminate] and is_alive() becomes false,
\* with the worker thread scheduled fairly.
C22_ThreadCancellation == \A t \in Tasks : Signalled(t) ~> Cancelled(t)

\* A second run of a thread task has been cancelled.
C22_Witness ==
    \E t \in Tasks :
        /\ Cancelled(t)
        /\ ndisp[t] = 2
        /\ rpc[t] = "none"
        /\ ~thread_terminate[t]

\* C23: the proof-of-start drain of a process dispatch of T ends
\* successfully only on a run record of the worker that this dispatch
\* started: never on a run record of another task or of an earlier dispatch.
C23_OwnRunEndsDrain ==
    drain_end.by = "run" =>
        /\ drain_end.record.task_name = drain_end.task
        /\ drain_end.record.process = drain_end.pid

\* The drain of a dispatch has ended on the run record of another task.
C23_ForeignRun ==
    /\ drain_end.by = "run"
    /\ drain_end.record.task_name # drain_end.task

\* The records of the bridge that name t and the parent has replayed, as
\* they stand in the parent's log of t.
Replayed(t) ==
    LET FromBridge(r) == r.process # 0
    IN SelectSeq(session_log[t], FromBridge)

\* The records on the bridge that name t.
Pending(t) ==
    LET Names(r) == r.task_name = t
        onbridge == SelectSeq(log_queue, Names)
    IN [i \in 1..Len(onbridge) |->
           [action |-> onbridge[i].action, process |-> onbridge[i].process]]

\* The records the workers of t have logged.
Logged(t) ==
    [i \in 1..Len(worker_logged[t]) |->
        [action |-> worker_logged[t][i].action,
         process |-> worker_logged[t][i].process]]

\* C24: each record popped from the bridge is replayed on the task it
\* names, not on the dispatching task: it is emitted once into the parent's
\* log of that task, in the order logged, and that task's cached status is
\* the action of the last record replayed; so once every record a worker
\* put has been drained, the cached status of the task is the action of
\* the last record the worker logged.
C24_ReplayOnNamedTask ==
    \A t \in BridgeTasks :
        /\ Replayed(t) \o Pending(t) = Logged(t)
        /\ cached_status[t] =
              IF Replayed(t) = <<>> THEN "None"
              ELSE Replayed(t)[Len(Replayed(t))].action
        /\ (Pending(t) = <<>> /\ Logged(t) # <<>>) =>
              cached_status[t] = Logged(t)[Len(Logged(t))].action

\* During the dispatch of U the parent has replayed a record of T's worker
\* on T and the bridge holds nothing more of T.
C24_Witness ==
    /\ lock_to_run.task = "U"
    /\ Len(Replayed("T")) >= 2
    /\ Pending("T") = <<>>
    /\ cached_status["T"] \in BodyEnds
    /\ cached_status["U"] = "None"
    /\ processes["U"].pc = "setup"

\* Every key of the registry is the name of the task registered under it.
KeysAreNames == \A k \in DOMAIN tasks : _name[tasks[k]] = k

\* The last assignment left every key under which another task was
\* registered in the registry.
OtherKeysKept ==
    name_call.called =>
        \A n \in DOMAIN name_call.before :
            name_call.before[n] # name_call.obj => n \in DOMAIN tasks

\* C25: after any constructions and name assignments under any policy,
\* every registry entry maps a key k to a task whose own name is k, and an
\* assignment of a name to one task never removes the registry entry of a
\* different task.
C25_RegistryConsistent == KeysAreNames /\ OtherKeysKept

\* The last assignment gave a task a free name and removed the entry of
\* another task, which keeps its name and is registered no more.
C25_EntryRemoved ==
    /\ name_call.called
    /\ name_call.result = "ok"
    /\ ~name_call.collided
    /\ \E n \in DOMAIN name_call.before :
          /\ name_call.before[n] # name_call.obj
          /\ n \notin DOMAIN tasks
          /\ _name[name_call.before[n]] = n

====
